---- MODULE Spec2Model ----
(***************************************************************************)
(* A model of the slurm-charms repository: the slurmctld (controller),    *)
(* slurmd (compute), sackd (login) and slurmrestd (REST) charms as event   *)
(* handlers over durable StoredState, with the external services, files   *)
(* and scontrol calls they drive.                                          *)
(*                                                                         *)
(* Conventions                                                             *)
(*  - A Python string that the code parses is a sequence of tokens: "="    *)
(*    "#", " " (white space), "," and atoms (runs of other characters).    *)
(*    A multi-line option string is the sequence of its lines, i.e. the    *)
(*    result of str.split("\n"); <<>> stands for Python's None.            *)
(*  - A handler is one action.  It threads a context record through the    *)
(*    statements of the handler; an exception that is not caught sets      *)
(*    c.raised and every later statement is skipped.  StoredState writes   *)
(*    made before the exception stay (the handlers are run as written).    *)
(*  - X_last is the trace of the last handler run of charm X: the external *)
(*    operations it invoked in order, whether it deferred its event and    *)
(*    which exception escaped.                                             *)
(***************************************************************************)
EXTENDS Integers, Sequences, FiniteSets, TLC

\* ------------------------------------------------------------------ bounds
MaxNodes == 2
\* fresh events are dispatched while fewer than this many events stand deferred
MaxDeferred == 2
\* the history counter of resume commands per node saturates here
MaxResumeCount == 2
MaxIndex == 6

NodeNames == <<"node1", "node2", "node3">>
Nodes == {NodeNames[i] : i \in 1..MaxNodes}

\* ----------------------------------------------------------------- helpers
SeqToSet(s) == {s[i] : i \in DOMAIN s}

IsIn(x, s) == \E i \in DOMAIN s : s[i] = x

NoDup(s) == \A i, j \in DOMAIN s : i # j => s[i] # s[j]

\* the nodes in unit order; sets of nodes are listed in this order
NodeOrder == SubSeq(NodeNames, 1, MaxNodes)

\* the orders in which the compute-node relation may list its units
NodeOrders ==
    {s \in [1..MaxNodes -> Nodes] : \A i, j \in 1..MaxNodes : s[i] = s[j] => i = j}

\* [x for x in s if P(x)]
RECURSIVE Keep(_, _)
Keep(s, S) ==
    IF s = <<>> THEN <<>>
    ELSE IF Head(s) \in S THEN <<Head(s)>> \o Keep(Tail(s), S)
    ELSE Keep(Tail(s), S)

\* ",".join(s), as tokens
RECURSIVE Join(_)
Join(s) ==
    IF s = <<>> THEN <<>>
    ELSE IF Len(s) = 1 THEN <<s[1]>>
    ELSE <<s[1], ",">> \o Join(Tail(s))

\* index of the first "=" of a line, 0 when there is none
RECURSIVE FirstEq(_, _)
FirstEq(line, i) ==
    IF i > Len(line) THEN 0
    ELSE IF line[i] = "=" THEN i
    ELSE FirstEq(line, i + 1)

\* line.split("=")[0]
SplitKey(line) ==
    IF FirstEq(line, 1) = 0 THEN line ELSE SubSeq(line, 1, FirstEq(line, 1) - 1)

\* line.split("=", 1)[1]; only defined when the line holds a "="
\* variant: line.split("=")[1], the text between the first two "="
SplitValue_second_piece(line) ==
    LET rest == SubSeq(line, FirstEq(line, 1) + 1, Len(line))
    IN IF FirstEq(rest, 1) = 0 THEN rest ELSE SubSeq(rest, 1, FirstEq(rest, 1) - 1)

SplitValue(line) == SubSeq(line, FirstEq(line, 1) + 1, Len(line))

\* line.startswith("#")
StartsWithHash(line) == Len(line) > 0 /\ line[1] = "#"

\* line.strip() != ""
NotBlank(line) == \E i \in DOMAIN line : line[i] # " "

NoneValue == <<>>
EmptyString == << <<>> >>

\* truth value of an option string: None and "" are falsy
Truthy(text) == text # NoneValue /\ text # EmptyString

\* ------------------------------------------------------ slurmctld constants
\* constants.py: CHARM_MAINTAINED_SLURM_CONF_PARAMETERS
CHARM_MAINTAINED_SLURM_CONF_PARAMETERS ==
    (<< "AuthAltParameters" >> :> <<"jwt_key", "/var/lib/slurm/checkpoint/jwt_hs256.key">>)
 @@ (<< "AuthAltTypes" >> :> <<"auth/jwt">>)
 @@ (<< "AuthInfo" >> :> <<"socket", "/var/run/munge/munge.socket.2">>)
 @@ (<< "AuthType" >> :> <<"auth/munge">>)
 @@ (<< "GresTypes" >> :> <<"gpu">>)
 @@ (<< "HealthCheckInterval" >> :> <<"600">>)
 @@ (<< "HealthCheckNodeState" >> :> <<"ANY", "CYCLE">>)
 @@ (<< "HealthCheckProgram" >> :> <<"/usr/sbin/charmed-hpc-nhc-wrapper">>)
 @@ (<< "MailProg" >> :> <<"/usr/bin/mail.mailutils">>)
 @@ (<< "PluginDir" >> :> <<"/usr/lib/x86_64-linux-gnu/slurm-wlm">>)
 @@ (<< "PlugStackConfig" >> :> <<"/etc/slurm/plugstack.conf.d/plugstack.conf">>)
 @@ (<< "SelectType" >> :> <<"select/cons_tres">>)
 @@ (<< "SelectTypeParameters" >> :> <<"CR_CPU_Memory">>)
 @@ (<< "SlurmctldPort" >> :> <<"6817">>)
 @@ (<< "SlurmdPort" >> :> <<"6818">>)
 @@ (<< "StateSaveLocation" >> :> <<"/var/lib/slurm/checkpoint">>)
 @@ (<< "SlurmdSpoolDir" >> :> <<"/var/lib/slurm/slurmd">>)
 @@ (<< "SlurmctldLogFile" >> :> <<"/var/log/slurm/slurmctld.log">>)
 @@ (<< "SlurmdLogFile" >> :> <<"/var/log/slurm/slurmd.log">>)
 @@ (<< "SlurmdPidFile" >> :> <<"/var/run/slurmd.pid">>)
 @@ (<< "SlurmctldPidFile" >> :> <<"/var/run/slurmctld.pid">>)
 @@ (<< "SlurmUser" >> :> <<"slurm">>)
 @@ (<< "SlurmdUser" >> :> <<"root">>)
 @@ (<< "RebootProgram" >> :> <<"/usr/sbin/reboot", " ", "--reboot">>)


\* --------------------------------------------------------------- variables
VARIABLES
    charm,          \* the charm whose unit this behaviour follows
    leader,         \* unit.is_leader(), as the runtime reports it now
    container,      \* is_container()
    config,         \* the charm configuration (juju config) of the unit
    facts,          \* slurmd relation: per node "absent", "new", "configured", "departed"
    gres,           \* slurmd relation: per node the generic resources in its fact
    rest_joined,    \* controller side: the slurmrestd relation exists
    rest_data,      \* controller side: slurm_conf held on the slurmrestd relation
    sackd_data,     \* controller side: cluster_info held on the login-node relation
    ctld_stored,    \* SlurmctldCharm._stored
    ctld_status,    \* SlurmctldCharm.unit.status
    ctld_sys,       \* services and files on the controller machine
    ctld_deferred,  \* deferred events awaiting redelivery
    ctld_last,      \* trace of the last controller handler
    resumed,        \* history: successful resume commands naming each node
    recorded,       \* history: nodes that have been in new_nodes
    assembled,      \* the last call of _assemble_slurm_conf: inputs and outcome
    sat_stored,     \* _stored of the sackd, slurmd or slurmrestd unit
    sat_status,     \* unit.status of that unit
    sat_sys,        \* services and files on that unit's machine
    sat_joined,     \* that unit's slurmctld relation exists
    sat_deferred,   \* that unit's deferred events
    sat_last        \* trace of that unit's last handler

ctld_vars == <<leader, container, config, facts, gres, rest_joined, rest_data, sackd_data,
               ctld_stored, ctld_status, ctld_sys, ctld_deferred, ctld_last, resumed,
               recorded, assembled>>

sat_vars == <<sat_stored, sat_status, sat_sys, sat_joined, sat_deferred, sat_last>>

vars == <<charm, ctld_vars, sat_vars>>

\* ------------------------------------------------------------ unit status
\* the items of a comma-separated value
RECURSIVE CommaItems(_)
CommaItems(value) ==
    IF \A i \in DOMAIN value : value[i] # "," THEN <<value>>
    ELSE LET c == CHOOSE i \in DOMAIN value :
                    value[i] = "," /\ \A j \in 1..(i - 1) : value[j] # ","
         IN <<SubSeq(value, 1, c - 1)>> \o CommaItems(SubSeq(value, c + 1, Len(value)))

WaitingStatus(msg) == [name |-> "waiting", message |-> msg]
BlockedStatus(msg) == [name |-> "blocked", message |-> msg]
ActiveStatus(msg) == [name |-> "active", message |-> msg]
MaintenanceStatus == [name |-> "maintenance", message |-> ""]

\* ------------------------------------------------ slurmctld: configuration
\* SlurmctldCharm._get_user_supplied_parameters: the lines that are kept
UserLines(text) ==
    IF Truthy(text)
    THEN SelectSeq(text, LAMBDA line : ~StartsWithHash(line) /\ NotBlank(line))
    ELSE <<>>

\* the dict comprehension raises IndexError on a kept line without "="
UserParseError(text) == \E i \in DOMAIN UserLines(text) : FirstEq(UserLines(text)[i], 1) = 0

\* the dict the comprehension builds: a later line with the same key wins
_get_user_supplied_parameters(text) ==
    LET lines == UserLines(text)
        keys == {SplitKey(lines[i]) : i \in DOMAIN lines}
        last(k) == CHOOSE i \in DOMAIN lines :
                      /\ SplitKey(lines[i]) = k
                      /\ \A j \in DOMAIN lines : SplitKey(lines[j]) = k => j <= i
    IN [k \in keys |-> SplitValue(lines[last(k)])]

\* Slurmd.get_new_nodes_and_nodes_and_partitions (interface_slurmd.py): the
\* DownNodes, Nodes and Partitions contributed by the joined compute nodes.
\* The interface walks the units of the relation; order is the order in
\* which this call meets them, which nothing in the charm fixes.
Joined == {n \in Nodes : facts[n] \in {"new", "configured"}}

NewNodesOf(f) == {n \in Nodes : f[n] = "new"}

get_new_nodes_and_nodes_and_partitions(f, default_partition, order) ==
    LET joined == {n \in Nodes : f[n] \in {"new", "configured"}}
        new == Keep(order, NewNodesOf(f))
    IN (<<"DownNodes">> :>
            (IF new = <<>> THEN <<>>
             ELSE <<[DownNodes |-> new, State |-> "DOWN", Reason |-> "New node."]>>))
    @@ (<<"Nodes">> :> Keep(order, joined))
    @@ (<<"Partitions">> :>
            (IF joined = {} THEN <<>>
             ELSE <<[PartitionName |-> "slurmd", Nodes |-> Keep(order, joined),
                     State |-> "UP",
                     Default |-> IF default_partition = "slurmd" THEN "YES" ELSE ""]>>))

\* _assemble_slurmctld_parameters: `x := get(...) != ""` binds the comparison,
\* so a non-empty user value makes x the bool True and x.split raises
\* AttributeError; otherwise the map is the charm's own.
SlurmctldParametersRaises(user) ==
    <<"SlurmctldParameters">> \in DOMAIN user /\ user[<<"SlurmctldParameters">>] # <<>>

_assemble_slurmctld_parameters == <<"enable_configless", "True">>

\* the accounting block, present only when a database host is recorded
\* variant: the block is always written, with the recorded host as it is
AccountingParams_always(slurmdbd_host) ==
       (<<"AccountingStorageHost">> :> <<slurmdbd_host>>)
    @@ (<<"AccountingStorageType">> :> <<"accounting_storage/slurmdbd">>)
    @@ (<<"AccountingStoragePass">> :> <<"/var/run/munge/munge.socket.2">>)
    @@ (<<"AccountingStoragePort">> :> <<"6819">>)

AccountingParams(slurmdbd_host) ==
    IF slurmdbd_host # ""
    THEN (<<"AccountingStorageHost">> :> <<slurmdbd_host>>)
      @@ (<<"AccountingStorageType">> :> <<"accounting_storage/slurmdbd">>)
      @@ (<<"AccountingStoragePass">> :> <<"/var/run/munge/munge.socket.2">>)
      @@ (<<"AccountingStoragePort">> :> <<"6819">>)
    ELSE << >>

\* the keyword arguments written out in the call SlurmConfig(...)
ExplicitParams(cluster_name, is_container) ==
       (<<"ClusterName">> :> <<cluster_name>>)
    @@ (<<"SlurmctldAddr">> :> <<"ingress-address">>)
    @@ (<<"SlurmctldHost">> :> <<"ctld-host">>)
    @@ (<<"SlurmctldParameters">> :> _assemble_slurmctld_parameters)
    @@ (<<"ProctrackType">> :>
            (IF is_container THEN <<"proctrack/linuxproc">> ELSE <<"proctrack/cgroup">>))
    @@ (<<"TaskPlugin">> :>
            (IF is_container THEN <<"task/affinity">> ELSE <<"task/cgroup", "task/affinity">>))

\* SlurmctldCharm._cluster_name
_cluster_name(cfg) == IF cfg.cluster_name # "" THEN cfg.cluster_name ELSE "charmedhpc"

\* f(a=1, **m1, **m2): a key given twice is a TypeError, never an overwrite
RECURSIVE KwClash(_)
KwClash(maps) ==
    IF Len(maps) <= 1 THEN FALSE
    ELSE \/ \E i \in 2..Len(maps) : (DOMAIN maps[1]) \cap (DOMAIN maps[i]) # {}
         \/ KwClash(Tail(maps))

RECURSIVE KwMerge(_)
KwMerge(maps) ==
    IF maps = <<>> THEN << >>
    ELSE maps[Len(maps)] @@ KwMerge(SubSeq(maps, 1, Len(maps) - 1))

KwCall(maps) ==
    IF KwClash(maps) THEN [exc |-> "TypeError", doc |-> <<>>]
    ELSE [exc |-> "none", doc |-> <<KwMerge(maps)>>]

\* SlurmctldCharm._assemble_slurm_conf
_assemble_slurm_conf(stored, cfg, f, is_container, order) ==
    LET text == cfg.slurm_conf_parameters
    IN IF UserParseError(text) THEN [exc |-> "IndexError", doc |-> <<>>]
       ELSE LET user == _get_user_supplied_parameters(text)
            IN IF SlurmctldParametersRaises(user)
               THEN [exc |-> "AttributeError", doc |-> <<>>]
               ELSE KwCall(<< ExplicitParams(_cluster_name(cfg), is_container),
                              AccountingParams(stored.slurmdbd_host),
                              CHARM_MAINTAINED_SLURM_CONF_PARAMETERS,
                              get_new_nodes_and_nodes_and_partitions(
                                  f, cfg.default_partition, order),
                              user >>)

\* SlurmctldCharm._get_new_node_names_from_slurm_config
RECURSIVE NewNamesOfEntries(_)
NewNamesOfEntries(entries) ==
    IF entries = <<>> THEN <<>>
    ELSE (IF Head(entries).Reason = "New node." THEN Head(entries).DownNodes ELSE <<>>)
         \o NewNamesOfEntries(Tail(entries))

_get_new_node_names_from_slurm_config(doc) ==
    IF <<"DownNodes">> \in DOMAIN doc THEN NewNamesOfEntries(doc[<<"DownNodes">>]) ELSE <<>>


\* ------------------------------------------------- handler context and ops
\* one external operation: the command, its arguments (each a token
\* sequence) and whether it succeeded
Op(cmd, args, ok) == [cmd |-> cmd, args |-> args, ok |-> ok]

\* the exception an operation raises when it fails
ExcOf(cmd) ==
    CASE cmd = "nhc.install" -> "CalledProcessError"
      [] cmd = "gpu.autoinstall" -> "GPUInstallError"
      [] cmd \in {"config.dump", "cgroup.dump", "gres.dump", "gres.edit"} -> "OSError"
      [] cmd \in {"nhc.generate_config", "nhc.generate_wrapper"} -> "FileNotFoundError"
      [] cmd \in {"jwt.generate", "config.load"} -> "FileNotFoundError"
      [] cmd = "subprocess.check_output" -> "CalledProcessError"
      [] OTHER -> "SlurmOpsError"

\* run one operation: it is skipped when an exception is already in flight,
\* and raises when it is the operation chosen to fail
Call(c, cmd, args, fail) ==
    IF c.raised # "none" THEN c
    ELSE IF cmd = fail
         THEN [c EXCEPT !.ops = Append(@, Op(cmd, args, FALSE)), !.raised = ExcOf(cmd)]
         ELSE [c EXCEPT !.ops = Append(@, Op(cmd, args, TRUE))]

\* a statement with an effect on the context, skipped while raising
Then(c, d) == IF c.raised # "none" THEN c ELSE d

\* except SlurmOpsError: logger.error(...); event.defer()
CatchSlurmOpsErrorAndDefer(c) ==
    IF c.raised = "SlurmOpsError" THEN [c EXCEPT !.raised = "none", !.deferred = TRUE] ELSE c

\* ------------------------------------------------------ slurmctld handlers
CtldContext ==
    [stored |-> ctld_stored, status |-> ctld_status, sys |-> ctld_sys, rest |-> rest_data,
     sackd |-> sackd_data, ops |-> <<>>, deferred |-> FALSE, raised |-> "none",
     pass |-> "none", old |-> <<>>, new |-> <<>>, transitioning |-> <<>>,
     resumed |-> <<>>, action |-> <<>>]

\* SlurmctldCharm._check_status
CtldReady(c) == c.stored.slurm_installed = TRUE

Ctld_check_status(c) ==
    Then(c, [c EXCEPT !.status =
                IF CtldReady(c) THEN ActiveStatus("")
                ELSE BlockedStatus("failed to install slurmctld. see logs for further details")])

\* SlurmctldCharm._resume_nodes
\* variant: the resume is issued as the resume action issues it
ResumeArgs_idle(nodelist) ==
    << <<"update">>, <<"nodename=">> \o Join(nodelist), <<"state=idle">> >>

ResumeArgs(nodelist) == << <<"update">>, <<"nodename=">> \o Join(nodelist), <<"state=resume">> >>

_resume_nodes(c, nodelist, fail) ==
    LET d == Call(c, "scontrol.update", ResumeArgs(nodelist), fail)
    IN IF c.raised = "none" /\ d.raised = "none" THEN [d EXCEPT !.resumed = nodelist] ELSE d

\* lines 317-328: the transitioning nodes, their resume, the recorded set
\* variant: every recorded node is taken as transitioning
TransitioningNodes_all(old, new) == old

TransitioningNodes(old, new) == Keep(old, SeqToSet(old) \ SeqToSet(new))

ResumeAndRecord(c, doc, fail) ==
    LET old == c.stored.new_nodes
        new == _get_new_node_names_from_slurm_config(doc)
        transitioning == TransitioningNodes(old, new)
        c1 == Then(c, [c EXCEPT !.old = old, !.new = new, !.transitioning = transitioning])
    IN IF Len(transitioning) > 0
       THEN LET c2 == _resume_nodes(c1, transitioning, fail)
            IN Then(c2, [c2 EXCEPT !.stored.new_nodes = new])
       ELSE c1

\* constants.py: CHARM_MAINTAINED_CGROUP_CONF_PARAMETERS
CHARM_MAINTAINED_CGROUP_CONF_PARAMETERS ==
       (<<"ConstrainCores">> :> <<"yes">>)
    @@ (<<"ConstrainDevices">> :> <<"yes">>)
    @@ (<<"ConstrainRAMSpace">> :> <<"yes">>)
    @@ (<<"ConstrainSwapSpace">> :> <<"yes">>)

\* lines 300-305: cgroup.conf, written unless running in a container
WriteCgroupConf(c, cfg, is_container, fail) ==
    IF is_container THEN c
    ELSE IF c.raised = "none" /\ UserParseError(cfg.cgroup_parameters)
         THEN [c EXCEPT !.raised = "IndexError"]
         ELSE LET d == Call(c, "cgroup.dump", <<>>, fail)
                  content == _get_user_supplied_parameters(cfg.cgroup_parameters)
                             @@ CHARM_MAINTAINED_CGROUP_CONF_PARAMETERS
              IN IF c.raised = "none" /\ d.raised = "none"
                 THEN [d EXCEPT !.sys.cgroup_conf = <<content>>] ELSE d

ServiceOp(c, what, fail) ==
    LET d == Call(c, "service." \o what, <<>>, fail)
    IN IF c.raised = "none" /\ d.raised = "none" THEN [d EXCEPT !.sys.service = what] ELSE d

ConfigDump(c, doc, fail) ==
    LET d == Call(c, "config.dump", <<>>, fail)
    IN IF c.raised = "none" /\ d.raised = "none" THEN [d EXCEPT !.sys.slurm_conf = <<doc>>] ELSE d

\* lines 330-332: slurmrestd gets the document of every completed pass
\* variant: the document is sent only when the relation holds another one
PushToSlurmrestd_on_change(c, doc, joined) ==
    IF joined /\ c.rest # <<doc>>
    THEN LET d == Call(c, "slurmrestd.set_slurm_config", <<>>, "none")
         IN Then(c, [d EXCEPT !.rest = <<doc>>])
    ELSE c

PushToSlurmrestd(c, doc, joined) ==
    IF joined
    THEN LET d == Call(c, "slurmrestd.set_slurm_config", <<>>, "none")
         IN Then(c, [d EXCEPT !.rest = <<doc>>])
    ELSE c

\* lines 296-332: the body of the pass once a document is assembled
\* variant: the reconfigure is issued before the service is enabled again
WriteAndReconfigure_early(c, doc, in) ==
    LET c1 == ServiceOp(c, "disable", in.fail)
        c2 == ConfigDump(c1, doc, in.fail)
        c3 == WriteCgroupConf(c2, in.config, in.container, in.fail)
        c4 == Call(c3, "scontrol.reconfigure", << <<"reconfigure">> >>, in.fail)
        c5 == ServiceOp(c4, "enable", in.fail)
        c6 == ResumeAndRecord(c5, doc, in.fail)
    IN PushToSlurmrestd(c6, doc, in.rest_joined)

WriteAndReconfigure(c, doc, in) ==
    LET c1 == ServiceOp(c, "disable", in.fail)
        c2 == ConfigDump(c1, doc, in.fail)
        c3 == WriteCgroupConf(c2, in.config, in.container, in.fail)
        c4 == ServiceOp(c3, "enable", in.fail)
        c5 == Call(c4, "scontrol.reconfigure", << <<"reconfigure">> >>, in.fail)
        c6 == ResumeAndRecord(c5, doc, in.fail)
    IN PushToSlurmrestd(c6, doc, in.rest_joined)

\* SlurmctldCharm._on_write_slurm_conf
_on_write_slurm_conf(c, in) ==
    IF c.raised # "none" THEN c
    ELSE IF ~in.leader THEN [c EXCEPT !.pass = "not_leader"]
    ELSE LET c1 == Ctld_check_status(c)
         IN IF ~CtldReady(c1) THEN [c1 EXCEPT !.deferred = TRUE, !.pass = "not_ready"]
            ELSE LET a == _assemble_slurm_conf(c1.stored, in.config, in.facts,
                                               in.container, in.order)
                 IN IF a.exc # "none" THEN [c1 EXCEPT !.raised = a.exc, !.pass = "raised"]
                    ELSE LET c3 == WriteAndReconfigure(c1, a.doc[1], in)
                         IN [c3 EXCEPT !.pass =
                                IF c3.raised = "none" THEN "completed" ELSE "raised"]


\* SlurmctldCharm._on_install, lines 104-118: the leader's try block
MungeKey == "munge-key"
JwtKey == "jwt-key"

\* self._stored.jwt_rsa = ...: set_default does not name jwt_rsa, the
\* stored state gains the name with this assignment
SetJwtRsa(stored, key) ==
    [k \in DOMAIN stored \cup {"jwt_rsa"} |-> IF k = "jwt_rsa" THEN key ELSE stored[k]]

\* variant: the installed flag is set before the keys are generated
CtldInstallSteps_flag_first(c, fail) ==
    LET c1 == Call(c, "slurmctld.install", <<>>, fail)
        c2 == Then(c1, [c1 EXCEPT !.stored.slurm_installed = TRUE])
        c3 == Call(c2, "jwt.generate", <<>>, fail)
        c4 == Then(c3, [c3 EXCEPT !.stored = SetJwtRsa(@, JwtKey)])
        c5 == Call(c4, "munge.key.generate", <<>>, fail)
        c6 == Call(c5, "munge.key.get", <<>>, fail)
        c7 == Then(c6, [c6 EXCEPT !.stored.munge_key = MungeKey])
        c8 == Call(c7, "munge.service.restart", <<>>, fail)
        c9 == ServiceOp(c8, "restart", fail)
        c10 == Call(c9, "exporter.service.enable", <<>>, fail)
    IN Call(c10, "version", <<>>, fail)

CtldInstallSteps(c, fail) ==
    LET c1 == Call(c, "slurmctld.install", <<>>, fail)
        c2 == Call(c1, "jwt.generate", <<>>, fail)
        c3 == Then(c2, [c2 EXCEPT !.stored = SetJwtRsa(@, JwtKey)])
        c4 == Call(c3, "munge.key.generate", <<>>, fail)
        c5 == Call(c4, "munge.key.get", <<>>, fail)
        c6 == Then(c5, [c5 EXCEPT !.stored.munge_key = MungeKey])
        c7 == Call(c6, "munge.service.restart", <<>>, fail)
        c8 == ServiceOp(c7, "restart", fail)
        c9 == Call(c8, "exporter.service.enable", <<>>, fail)
        c10 == Call(c9, "version", <<>>, fail)
    IN Then(c10, [c10 EXCEPT !.stored.slurm_installed = TRUE])

\* variant: the installation does not ask whether the unit is the leader
_on_install_any_unit(c, in) ==
    LET c0 == [c EXCEPT !.status = WaitingStatus("installing slurmctld")]
    IN _on_write_slurm_conf(CatchSlurmOpsErrorAndDefer(CtldInstallSteps(c0, in.fail)), in)

_on_install(c, in) ==
    LET c0 == [c EXCEPT !.status = WaitingStatus("installing slurmctld")]
        c1 == IF in.leader
              THEN CatchSlurmOpsErrorAndDefer(CtldInstallSteps(c0, in.fail))
              ELSE [c0 EXCEPT
                      !.status = BlockedStatus("slurmctld high-availability not supported"),
                      !.deferred = TRUE]
    IN _on_write_slurm_conf(c1, in)

\* SlurmctldCharm._on_config_changed
_on_config_changed(c, in) ==
    LET nhc == in.config.health_check_params
        c1 == IF nhc # c.stored.nhc_params /\ nhc # ""
              THEN Call([c EXCEPT !.stored.nhc_params = nhc], "slurmd.set_nhc_params",
                        <<>>, "none")
              ELSE c
        dp == in.config.default_partition
        dpChanged == dp # "" /\ dp # c1.stored.default_partition
        c2 == IF dpChanged THEN [c1 EXCEPT !.stored.default_partition = dp] ELSE c1
        text == in.config.slurm_conf_parameters
        textChanged == text # NoneValue /\ text # c2.stored.user_supplied_slurm_conf_params
        c3 == IF textChanged
              THEN [c2 EXCEPT !.stored.user_supplied_slurm_conf_params = text] ELSE c2
    IN IF dpChanged \/ textChanged THEN _on_write_slurm_conf(c3, in) ELSE c3

\* SlurmctldCharm._on_slurmdbd_available / _on_slurmdbd_unavailable
_on_slurmdbd_available(c, host, in) ==
    _on_write_slurm_conf([c EXCEPT !.stored.slurmdbd_host = host], in)

_on_slurmdbd_unavailable(c) == Ctld_check_status([c EXCEPT !.stored.slurmdbd_host = ""])

\* self._slurmctld.config.load(): reading slurm.conf fails when no pass has
\* written the file
config_load(c) ==
    Call(c, "config.load", <<>>, IF c.sys.slurm_conf = NoneValue THEN "config.load" ELSE "none")

\* SlurmctldCharm._on_slurmrestd_available
_on_slurmrestd_available(c, in) ==
    IF in.leader
    THEN LET c1 == Ctld_check_status(c)
         IN IF CtldReady(c1)
            THEN LET c2 == config_load(c1)
                     c3 == Call(c2, "slurmrestd.set_slurm_config", <<>>, "none")
                 IN Then(c3, [c3 EXCEPT !.rest = c.sys.slurm_conf])
            ELSE [c1 EXCEPT !.deferred = TRUE]
    ELSE c

\* the generic resources in the node data a unit first places on the
\* relation; in.gres holds the ones of its latest node data
GresInfo(n) == IF n = "node2" THEN <<>> ELSE <<"gpu", "tesla_t4", "/dev/nvidia0">>

\* SlurmctldCharm._update_gres_conf
\* variant: gres.conf is edited without asking whether the unit is the leader
_update_gres_conf_unchecked(c, n, in) ==
    LET c1 == Ctld_check_status(c)
    IN IF ~CtldReady(c1) THEN [c1 EXCEPT !.deferred = TRUE]
       ELSE IF in.gres[n] # <<>>
            THEN LET d == Call(c1, "gres.edit", <<>>, in.fail)
                 IN Then(d, [d EXCEPT !.sys.gres_conf = (n :> in.gres[n]) @@ @])
            ELSE c1

_update_gres_conf(c, n, in) ==
    IF ~in.leader THEN c
    ELSE LET c1 == Ctld_check_status(c)
         IN IF ~CtldReady(c1) THEN [c1 EXCEPT !.deferred = TRUE]
            ELSE IF in.gres[n] # <<>>
                 THEN LET d == Call(c1, "gres.edit", <<>>, in.fail)
                      IN Then(d, [d EXCEPT !.sys.gres_conf = (n :> in.gres[n]) @@ @])
                 ELSE c1

\* Slurmd.get_all_gres_info (interface_slurmd.py): the resources of the joined nodes
get_all_gres_info(f, g) ==
    [n \in {m \in Nodes : f[m] \in {"new", "configured"} /\ g[m] # <<>>} |-> g[n]]

\* SlurmctldCharm._refresh_gres_conf
_refresh_gres_conf(c, in) ==
    IF ~in.leader THEN c
    ELSE LET c1 == Ctld_check_status(c)
         IN IF ~CtldReady(c1) THEN [c1 EXCEPT !.deferred = TRUE]
            ELSE LET d == Call(c1, "gres.dump", <<>>, in.fail)
                 IN Then(d, [d EXCEPT !.sys.gres_conf = get_all_gres_info(in.facts, in.gres)])

\* SlurmctldCharm._on_slurmd_available / _on_slurmd_departed
_on_slurmd_available(c, n, in) == _on_write_slurm_conf(_update_gres_conf(c, n, in), in)

_on_slurmd_departed(c, in) == _on_write_slurm_conf(_refresh_gres_conf(c, in), in)

\* Slurmd._on_relation_changed (interface_slurmd.py): a fact that says
\* new_node is recorded, new_nodes = list(set(new_nodes + [name]))
RecordNewNode(c, n, in) ==
    IF in.facts[n] = "new"
    THEN [c EXCEPT !.stored.new_nodes = Keep(in.order, SeqToSet(@) \cup {n})]
    ELSE c


\* ------------------------------------------------------ slurmctld: events
Event(name, node) == [name |-> name, node |-> node]
NoEvent == Event("none", "")

\* shlex.split (POSIX rules, whitespace_split) on a command line given as
\* tokens.  Outside quotes a space ends an argument, a quote character opens
\* a quoted stretch and a backslash takes the next token literally.  Between
\* single quotes everything is literal; between double quotes a backslash
\* escapes a double quote or a backslash and is kept before anything else.
\* The quote characters and the escaping backslash are dropped.  An input
\* that ends inside quotes or right after a backslash raises ValueError.
Quote == "\""
SingleQuote == "'"
Backslash == "\\"
Space == " "

\* state: "a" outside quotes, "dq" and "sq" inside double and single quotes,
\* "esc_a" and "esc_dq" right after a backslash met outside quotes and inside
\* double quotes; started: the argument has a character or was quoted
RECURSIVE ShlexScan(_, _, _, _, _)
ShlexScan(line, cur, started, state, args) ==
    IF line = <<>>
    THEN IF state # "a" THEN [raised |-> "ValueError", args |-> <<>>]
         ELSE [raised |-> "none", args |-> IF started THEN Append(args, cur) ELSE args]
    ELSE LET ch == Head(line)
             rest == Tail(line)
         IN CASE state = "a" ->
                    IF ch = Space
                    THEN ShlexScan(rest, <<>>, FALSE, "a",
                                   IF started THEN Append(args, cur) ELSE args)
                    ELSE IF ch = Quote THEN ShlexScan(rest, cur, TRUE, "dq", args)
                    ELSE IF ch = SingleQuote THEN ShlexScan(rest, cur, TRUE, "sq", args)
                    ELSE IF ch = Backslash THEN ShlexScan(rest, cur, started, "esc_a", args)
                    ELSE ShlexScan(rest, Append(cur, ch), TRUE, "a", args)
              [] state = "sq" ->
                    IF ch = SingleQuote THEN ShlexScan(rest, cur, TRUE, "a", args)
                    ELSE ShlexScan(rest, Append(cur, ch), TRUE, "sq", args)
              [] state = "dq" ->
                    IF ch = Quote THEN ShlexScan(rest, cur, TRUE, "a", args)
                    ELSE IF ch = Backslash THEN ShlexScan(rest, cur, TRUE, "esc_dq", args)
                    ELSE ShlexScan(rest, Append(cur, ch), TRUE, "dq", args)
              [] state = "esc_a" -> ShlexScan(rest, Append(cur, ch), TRUE, "a", args)
              [] OTHER ->
                    IF ch \in {Quote, Backslash}
                    THEN ShlexScan(rest, Append(cur, ch), TRUE, "dq", args)
                    ELSE ShlexScan(rest, cur \o <<Backslash, ch>>, TRUE, "dq", args)

shlex_split(line) == ShlexScan(line, <<>>, FALSE, "a", <<>>)

\* the output a failed command leaves in CalledProcessError.output
CommandOutput == "scontrol: error"

\* subprocess.check_output(shlex.split(cmd)) inside try/except
\* CalledProcessError, with the results of success and the message of failure
RunActionCommand(c, cmd, done, what, nodes, fail) ==
    LET argv == shlex_split(cmd)
    IN IF argv.raised # "none" THEN [c EXCEPT !.raised = argv.raised]
       ELSE LET d == Call(c, "subprocess.check_output", argv.args, fail)
            IN IF d.raised = "CalledProcessError"
               THEN [d EXCEPT !.raised = "none",
                              !.action = [failed |-> TRUE, results |-> <<>>,
                                          message |-> [text |-> "Error " \o what,
                                                       nodes |-> nodes,
                                                       output |-> CommandOutput]]]
               ELSE [d EXCEPT !.action = [failed |-> FALSE, message |-> <<>>,
                                          results |-> [status |-> done, nodes |-> nodes]]]

\* SlurmctldCharm._on_drain_nodes_action
_on_drain_nodes_action(c, params, fail) ==
    LET cmd == <<"scontrol", Space, "update", Space, "nodename=">> \o params.nodename
               \o <<Space, "state=drain", Space, "reason=", Quote>> \o params.reason
               \o <<Quote>>
    IN RunActionCommand(c, cmd, "draining", "draining", params.nodename, fail)

\* SlurmctldCharm._on_resume_nodes_action
_on_resume_nodes_action(c, params, fail) ==
    LET cmd == <<"scontrol", Space, "update", Space, "nodename=">> \o params.nodename
               \o <<Space, "state=idle">>
    IN RunActionCommand(c, cmd, "resuming", "resuming", params.nodename, fail)

\* the inputs a controller handler reads from its environment
CtldInputs(fail, order) ==
    [leader |-> leader, fail |-> fail, config |-> config,
     facts |-> facts, gres |-> gres, container |-> container,
     rest_joined |-> rest_joined, order |-> order]

\* operations of the install block, and of the pass, that may fail
CtldInstallFailures ==
    {"slurmctld.install", "jwt.generate", "munge.key.generate", "munge.service.restart",
     "service.restart"}
CtldPassFailures ==
    {"service.disable", "config.dump", "cgroup.dump", "service.enable",
     "scontrol.reconfigure", "scontrol.update"}

\* a fresh event is dispatched, or a deferred one is delivered again
Fresh == Cardinality(ctld_deferred) < MaxDeferred
Delivered(ev) == ev \in ctld_deferred \/ Fresh

Bump(n) == IF n < MaxResumeCount THEN n + 1 ELSE n

\* the end of a dispatch: the handler's effects become the unit's state.  An
\* event whose handler raised stays as it was (the hook is retried).
CtldCommit(ev, cx) ==
  \E c \in {cx} :
    /\ ctld_stored' = c.stored
    /\ ctld_status' = c.status
    /\ ctld_sys' = c.sys
    /\ rest_data' = c.rest
    /\ sackd_data' = c.sackd
    /\ ctld_deferred' = IF c.raised # "none" THEN ctld_deferred
                        ELSE IF c.deferred THEN ctld_deferred \cup {ev}
                        ELSE ctld_deferred \ {ev}
    /\ ctld_last' = [event |-> ev, leader |-> leader, ops |-> c.ops,
                     deferred |-> c.deferred, raised |-> c.raised, pass |-> c.pass,
                     old |-> c.old, new |-> c.new, transitioning |-> c.transitioning,
                     installed_before |-> ctld_stored.slurm_installed,
                     action |-> c.action]
    /\ resumed' = [n \in Nodes |-> IF IsIn(n, c.resumed) THEN Bump(resumed[n])
                                   ELSE resumed[n]]
    /\ recorded' = recorded \cup SeqToSet(c.stored.new_nodes)
    /\ UNCHANGED <<charm, leader, container, config, facts, gres, rest_joined, assembled,
                   sat_vars>>

\* Each handler is an action; F is the set of operations that may fail in
\* the run (one of them, or none), N the compute nodes that take part.
Ctld_on_install(F) ==
    /\ charm \in {"slurmctld", "sackd"}
    /\ Event("install", "") \in ctld_deferred
    /\ \E fail \in {"none"} \cup F, order \in NodeOrders :
            CtldCommit(Event("install", ""), _on_install(CtldContext, CtldInputs(fail, order)))

Ctld_on_config_changed(F) ==
    /\ charm = "slurmctld"
    /\ Delivered(Event("config_changed", ""))
    /\ \E fail \in {"none"} \cup F, order \in NodeOrders :
            CtldCommit(Event("config_changed", ""),
                       _on_config_changed(CtldContext, CtldInputs(fail, order)))

Ctld_on_update_status ==
    /\ charm = "slurmctld"
    /\ Fresh
    /\ CtldCommit(Event("update_status", ""), Ctld_check_status(CtldContext))

\* H is the set of hosts a slurmdbd_available event may carry; a deferred
\* event is delivered again with the host it was emitted with
Ctld_on_slurmdbd_available(H, F) ==
    /\ charm = "slurmctld"
    /\ \E host \in H, fail \in {"none"} \cup F, order \in NodeOrders :
        /\ Delivered(Event("slurmdbd_available", host))
        /\ CtldCommit(Event("slurmdbd_available", host),
                      _on_slurmdbd_available(CtldContext, host, CtldInputs(fail, order)))

Ctld_on_slurmdbd_unavailable ==
    /\ charm = "slurmctld"
    /\ Fresh
    /\ CtldCommit(Event("slurmdbd_unavailable", ""), _on_slurmdbd_unavailable(CtldContext))

\* relation-changed of a joined compute unit: the interface records a new
\* node and emits slurmd_available; a deferred slurmd_available is delivered
\* again without passing through the interface
Ctld_on_slurmd_available(N, F) ==
    /\ charm = "slurmctld"
    /\ \E n \in N, fail \in {"none"} \cup F, order \in NodeOrders :
        \/ /\ Fresh
           /\ facts[n] \in {"new", "configured"}
           /\ CtldCommit(Event("slurmd_available", n),
                         _on_slurmd_available(
                             RecordNewNode(CtldContext, n, CtldInputs(fail, order)),
                             n, CtldInputs(fail, order)))
        \/ /\ Event("slurmd_available", n) \in ctld_deferred
           /\ CtldCommit(Event("slurmd_available", n),
                         _on_slurmd_available(CtldContext, n, CtldInputs(fail, order)))

Ctld_on_slurmd_departed(F) ==
    /\ charm = "slurmctld"
    /\ Delivered(Event("slurmd_departed", ""))
    /\ \E n \in Nodes : facts[n] = "departed"
    /\ \E fail \in {"none"} \cup F, order \in NodeOrders :
            CtldCommit(Event("slurmd_departed", ""),
                       _on_slurmd_departed(CtldContext, CtldInputs(fail, order)))

\* partition_available and partition_unavailable are bound to the pass itself
Ctld_on_partition_event(F) ==
    /\ charm = "slurmctld"
    /\ Delivered(Event("partition_available", ""))
    /\ \E fail \in {"none"} \cup F, order \in NodeOrders :
        CtldCommit(Event("partition_available", ""),
                   _on_write_slurm_conf(CtldContext, CtldInputs(fail, order)))

Ctld_on_slurmrestd_available ==
    /\ charm = "slurmctld"
    /\ rest_joined
    /\ Delivered(Event("slurmrestd_available", ""))
    /\ CtldCommit(Event("slurmrestd_available", ""),
                  _on_slurmrestd_available(CtldContext, CtldInputs("none", NodeOrder)))

\* -------------------------------------------- slurmctld: the environment
\* leadership moves between units at any time
\* the operator's actions: L is the set of node lists, R the set of reasons
Ctld_on_drain_nodes_action(L, R, F) ==
    /\ charm = "slurmctld"
    /\ \E nodename \in L, reason \in R, fail \in {"none"} \cup F :
        LET params == [nodename |-> nodename, reason |-> reason]
        IN CtldCommit(Event("drain_nodes", params),
                      _on_drain_nodes_action(CtldContext, params, fail))

Ctld_on_resume_nodes_action(L, F) ==
    /\ charm = "slurmctld"
    /\ \E nodename \in L, fail \in {"none"} \cup F :
        LET params == [nodename |-> nodename]
        IN CtldCommit(Event("resume_nodes", params),
                      _on_resume_nodes_action(CtldContext, params, fail))

LeaderChange ==
    /\ charm = "slurmctld"
    /\ leader' = ~leader
    /\ UNCHANGED <<charm, container, config, facts, gres, rest_joined, rest_data, sackd_data,
                   ctld_stored,
                   ctld_status, ctld_sys, ctld_deferred, ctld_last, resumed, recorded,
                   assembled, sat_vars>>

\* a compute unit joins and publishes its fact (new_node is true at first),
\* runs node-configured (new_node false, fact republished), or departs
NodeFactChange(N) ==
    /\ charm = "slurmctld"
    /\ \E n \in N, to \in {"new", "configured", "departed"} :
        /\ \/ facts[n] = "absent" /\ to = "new"
           \/ facts[n] = "new" /\ to \in {"configured", "departed"}
           \/ facts[n] = "configured" /\ to = "departed"
        /\ facts' = [facts EXCEPT ![n] = to]
    /\ UNCHANGED <<charm, leader, container, config, gres, rest_joined, rest_data, sackd_data,
                   ctld_stored,
                   ctld_status, ctld_sys, ctld_deferred, ctld_last, resumed, recorded,
                   assembled, sat_vars>>

\* values of slurm-conf-parameters: empty, a key the charm does not maintain,
\* a key the charm maintains
PlainText == <<"JobAcctGatherFrequency", "=", "30">>
ClashText == <<"SlurmctldPort", "=", "7000">>

\* a line without "="
MalformedLine == <<"FAILEVAL">>

\* the operator sets slurm-conf-parameters on the controller
SetConfig(T) ==
    /\ charm = "slurmctld"
    /\ \E text \in T :
        /\ text # config.slurm_conf_parameters
        /\ config' = [config EXCEPT !.slurm_conf_parameters = text]
    /\ UNCHANGED <<charm, leader, container, facts, gres, rest_joined, rest_data, sackd_data,
                   ctld_stored,
                   ctld_status, ctld_sys, ctld_deferred, ctld_last, resumed, recorded,
                   assembled, sat_vars>>

\* a joined compute unit publishes its fact again with the generic resources
\* it finds now: the GPUs of G, or none
GresChange(N, G) ==
    /\ charm = "slurmctld"
    /\ \E n \in N, g \in G \cup {<<>>} :
        /\ facts[n] \in {"new", "configured"}
        /\ g # gres[n]
        /\ gres' = [gres EXCEPT ![n] = g]
    /\ UNCHANGED <<charm, leader, container, config, facts, rest_joined, rest_data, sackd_data,
                   ctld_stored, ctld_status, ctld_sys, ctld_deferred, ctld_last, resumed,
                   recorded, assembled, sat_vars>>

\* the operator sets or resets default-partition and health-check-params
SetOptions(D, H) ==
    /\ charm = "slurmctld"
    /\ \E d \in D, h \in H :
        /\ <<d, h>> # <<config.default_partition, config.health_check_params>>
        /\ config' = [config EXCEPT !.default_partition = d, !.health_check_params = h]
    /\ UNCHANGED <<charm, leader, container, facts, gres, rest_joined, rest_data, sackd_data,
                   ctld_stored,
                   ctld_status, ctld_sys, ctld_deferred, ctld_last, resumed, recorded,
                   assembled, sat_vars>>

RestRelationJoined ==
    /\ charm = "slurmctld"
    /\ ~rest_joined
    /\ rest_joined' = TRUE
    /\ UNCHANGED <<charm, leader, container, config, facts, gres, rest_data, sackd_data,
                   ctld_stored,
                   ctld_status, ctld_sys, ctld_deferred, ctld_last, resumed, recorded,
                   assembled, sat_vars>>

\* ------------------------------------- sackd, slurmd, slurmrestd: context
\* an optional value: None is <<>>, a present value v is <<v>>
Some(v) == <<v>>

SatContext ==
    [stored |-> sat_stored, status |-> sat_status, sys |-> sat_sys, joined |-> sat_joined,
     ops |-> <<>>, deferred |-> FALSE, raised |-> "none", results |-> <<>>,
     received |-> <<>>]

\* a systemd operation on the unit's own service
SatService(c, what, fail) ==
    LET d == Call(c, "service." \o what, <<>>, fail)
    IN IF c.raised = "none" /\ d.raised = "none" THEN [d EXCEPT !.sys.service = what] ELSE d

\* munge.key.set(key): the key file of the unit
MungeKeySet(c, key, fail) ==
    LET d == Call(c, "munge.key.set", <<key>>, fail)
    IN IF c.raised = "none" /\ d.raised = "none" THEN [d EXCEPT !.sys.munge_key = key] ELSE d

\* munge.service.restart / munge.service.disable
MungeService(c, what, fail) ==
    LET d == Call(c, "munge.service." \o what, <<>>, fail)
    IN IF c.raised = "none" /\ d.raised = "none" THEN [d EXCEPT !.sys.munge_service = what] ELSE d

\* except SlurmOpsError: logger.error(...)
CatchSlurmOpsError(c) == IF c.raised = "SlurmOpsError" THEN [c EXCEPT !.raised = "none"] ELSE c

\* f"{slurmctld_host}:6817"
ConfigServer(host) == <<host, ":", "6817">>

\* ------------------------------------------------------------ sackd charm
SackdStoredDefault ==
    [auth_key |-> "", sackd_installed |-> FALSE, slurmctld_available |-> FALSE,
     slurmctld_host |-> ""]

\* SackdCharm._check_status: its return value, and its effect on the status
SackdReady(c) ==
    c.stored.sackd_installed = TRUE /\ c.joined = TRUE /\ c.stored.slurmctld_available = TRUE

Sackd_check_status(c) ==
    Then(c, IF c.stored.sackd_installed # TRUE
            THEN [c EXCEPT !.status =
                    BlockedStatus("failed to install sackd. see logs for further details")]
            ELSE IF c.joined # TRUE
            THEN [c EXCEPT !.status = BlockedStatus("Need relations: slurmctld")]
            ELSE IF c.stored.slurmctld_available # TRUE
            THEN [c EXCEPT !.status = WaitingStatus("Waiting on: slurmctld")]
            ELSE c)

\* SackdCharm._on_install
\* variant: a failed installation is logged and the event is not deferred
SackdCharm_on_install_undeferred(c, fail) ==
    LET c0 == [c EXCEPT !.status = WaitingStatus("installing sackd")]
        c1 == Call(c0, "sackd.install", <<>>, fail)
        c2 == SatService(c1, "disable", fail)
        c3 == Call(c2, "version", <<>>, fail)
        c4 == Then(c3, [c3 EXCEPT !.stored.sackd_installed = TRUE])
    IN Sackd_check_status(CatchSlurmOpsError(c4))

SackdCharm_on_install(c, fail) ==
    LET c0 == [c EXCEPT !.status = WaitingStatus("installing sackd")]
        c1 == Call(c0, "sackd.install", <<>>, fail)
        c2 == SatService(c1, "disable", fail)
        c3 == Call(c2, "version", <<>>, fail)
        c4 == Then(c3, [c3 EXCEPT !.stored.sackd_installed = TRUE])
    IN Sackd_check_status(CatchSlurmOpsErrorAndDefer(c4))

\* variant: an event without a field withdraws the availability
SackdCharm_on_slurmctld_available_clearing(c, ev, fail) ==
    IF c.stored.sackd_installed # TRUE THEN [c EXCEPT !.deferred = TRUE]
    ELSE IF ev.slurmctld_host = NoneValue \/ ev.auth_key = NoneValue
    THEN [c EXCEPT !.stored.slurmctld_available = FALSE]
    ELSE
      LET c1 == IF ev.slurmctld_host # Some(c.stored.slurmctld_host)
                THEN [c EXCEPT !.sys.config_server = ConfigServer(ev.slurmctld_host[1]),
                               !.stored.slurmctld_host = ev.slurmctld_host[1]]
                ELSE c
          c2 == IF ev.auth_key # Some(c1.stored.auth_key)
                THEN MungeKeySet([c1 EXCEPT !.stored.auth_key = ev.auth_key[1]],
                                 ev.auth_key[1], fail)
                ELSE c1
          c3 == Then(c2, [c2 EXCEPT !.stored.slurmctld_available = TRUE])
          c4 == MungeService(c3, "restart", fail)
          c5 == SatService(c4, "enable", fail)
          c6 == Sackd_check_status(c5)
      IN Then(c6, IF SackdReady(c6) THEN [c6 EXCEPT !.status = ActiveStatus("")] ELSE c6)

\* SackdCharm._on_slurmctld_available; ev holds the optional fields
\* slurmctld_host and auth_key
\* a handler that takes an event bringing nothing new for a stale one
SackdCharm_on_slurmctld_available_stale(c, ev, fail) ==
    IF c.stored.sackd_installed # TRUE THEN [c EXCEPT !.deferred = TRUE]
    ELSE IF /\ ev.slurmctld_host = Some(c.stored.slurmctld_host)
            /\ ev.auth_key = Some(c.stored.auth_key)
    THEN [c EXCEPT !.stored.slurmctld_available = FALSE]
    ELSE IF ev.slurmctld_host # Some(c.stored.slurmctld_host) /\ ev.slurmctld_host = NoneValue
    THEN c
    ELSE
      LET c1 == IF ev.slurmctld_host # Some(c.stored.slurmctld_host)
                THEN [c EXCEPT !.sys.config_server = ConfigServer(ev.slurmctld_host[1]),
                               !.stored.slurmctld_host = ev.slurmctld_host[1]]
                ELSE c
      IN IF ev.auth_key # Some(c1.stored.auth_key) /\ ev.auth_key = NoneValue
         THEN c1
         ELSE
           LET c2 == IF ev.auth_key # Some(c1.stored.auth_key)
                     THEN MungeKeySet([c1 EXCEPT !.stored.auth_key = ev.auth_key[1]],
                                      ev.auth_key[1], fail)
                     ELSE c1
               c3 == Then(c2, [c2 EXCEPT !.stored.slurmctld_available = TRUE])
               c4 == MungeService(c3, "restart", fail)
               c5 == SatService(c4, "enable", fail)
               c6 == Sackd_check_status(c5)
           IN Then(c6, IF SackdReady(c6) THEN [c6 EXCEPT !.status = ActiveStatus("")] ELSE c6)

SackdCharm_on_slurmctld_available(c, ev, fail) ==
    IF c.stored.sackd_installed # TRUE THEN [c EXCEPT !.deferred = TRUE]
    ELSE IF ev.slurmctld_host # Some(c.stored.slurmctld_host) /\ ev.slurmctld_host = NoneValue
    THEN c
    ELSE
      LET c1 == IF ev.slurmctld_host # Some(c.stored.slurmctld_host)
                THEN [c EXCEPT !.sys.config_server = ConfigServer(ev.slurmctld_host[1]),
                               !.stored.slurmctld_host = ev.slurmctld_host[1]]
                ELSE c
      IN IF ev.auth_key # Some(c1.stored.auth_key) /\ ev.auth_key = NoneValue
         THEN c1
         ELSE
           LET c2 == IF ev.auth_key # Some(c1.stored.auth_key)
                     THEN MungeKeySet([c1 EXCEPT !.stored.auth_key = ev.auth_key[1]],
                                      ev.auth_key[1], fail)
                     ELSE c1
               c3 == Then(c2, [c2 EXCEPT !.stored.slurmctld_available = TRUE])
               c4 == MungeService(c3, "restart", fail)
               c5 == SatService(c4, "enable", fail)
               c6 == Sackd_check_status(c5)
           IN Then(c6, IF SackdReady(c6) THEN [c6 EXCEPT !.status = ActiveStatus("")] ELSE c6)

\* SackdCharm._on_slurmctld_unavailable
SackdCharm_on_slurmctld_unavailable(c, fail) ==
    LET c1 == [c EXCEPT !.stored.slurmctld_available = FALSE, !.stored.auth_key = "",
                        !.stored.slurmctld_host = ""]
    IN Sackd_check_status(SatService(c1, "disable", fail))

\* ------------------------------------------------------- slurmrestd charm
SlurmrestdStoredDefault == [slurm_installed |-> FALSE]

\* SlurmrestdCharm._check_status
SlurmrestdReady(c) == c.stored.slurm_installed = TRUE /\ c.joined

Slurmrestd_check_status(c) ==
    Then(c, IF c.stored.slurm_installed # TRUE
            THEN [c EXCEPT !.status =
                    BlockedStatus("failed to install slurmrestd. see logs for further details")]
            ELSE IF ~c.joined
            THEN [c EXCEPT !.status = BlockedStatus("Need relations: slurmctld")]
            ELSE [c EXCEPT !.status = ActiveStatus("")])

\* SlurmrestdCharm._on_install
SlurmrestdCharm_on_install(c, fail) ==
    LET c0 == [c EXCEPT !.status = WaitingStatus("installing slurmrestd")]
        c1 == Call(c0, "slurmrestd.install", <<>>, fail)
        c2 == Call(c1, "version", <<>>, fail)
        c3 == Then(c2, [c2 EXCEPT !.stored.slurm_installed = TRUE])
    IN Slurmrestd_check_status(CatchSlurmOpsErrorAndDefer(c3))

\* SlurmrestdCharm._on_slurmctld_available; ev holds the optional fields
\* munge_key and slurm_conf
\* variant: the handler does not look at the installed flag
SlurmrestdCharm_on_slurmctld_available_eager(c, ev, fail) ==
    LET c1 == IF ev.munge_key # NoneValue /\ ev.slurm_conf # NoneValue
              THEN LET d1 == MungeKeySet(c, ev.munge_key[1], fail)
                       d2 == Call(d1, "config.dump", <<>>, fail)
                       d3 == Then(d2, [d2 EXCEPT !.sys.slurm_conf = ev.slurm_conf])
                       d4 == MungeService(d3, "restart", fail)
                   IN SatService(d4, "restart", fail)
              ELSE c
    IN Slurmrestd_check_status(c1)

SlurmrestdCharm_on_slurmctld_available(c, ev, fail) ==
    IF c.stored.slurm_installed # TRUE THEN [c EXCEPT !.deferred = TRUE]
    ELSE
      LET c1 == IF ev.munge_key # NoneValue /\ ev.slurm_conf # NoneValue
                THEN LET d1 == MungeKeySet(c, ev.munge_key[1], fail)
                         d2 == Call(d1, "config.dump", <<>>, fail)
                         d3 == Then(d2, [d2 EXCEPT !.sys.slurm_conf = ev.slurm_conf])
                         d4 == MungeService(d3, "restart", fail)
                     IN SatService(d4, "restart", fail)
                ELSE c
      IN Slurmrestd_check_status(c1)

\* SlurmrestdCharm._on_slurmctld_unavailable
SlurmrestdCharm_on_slurmctld_unavailable(c, fail) ==
    Slurmrestd_check_status(MungeService(SatService(c, "disable", fail), "disable", fail))

\* ----------------------------------------------------------- slurmd charm
SlurmdStoredDefault ==
    [munge_key |-> "", new_node |-> TRUE, nhc_conf |-> "", nhc_params |-> "",
     slurm_installed |-> FALSE, slurmctld_available |-> FALSE, slurmctld_host |-> "",
     user_supplied_node_parameters |-> <<>>, user_supplied_partition_parameters |-> <<>>]

\* keys of slurmutils' PartitionOptionSet and NodeOptionSet that the inputs use
PartitionOptionKeys == {<<"MaxTime">>, <<"Default">>, <<"State">>}
NodeOptionKeys == {<<"Weight">>, <<"Gres">>, <<"MemSpecLimit">>}

\* item.split("=")[1]: the text between the first "=" and the next one
SecondPiece(item) ==
    LET rest == SplitValue(item)
    IN IF FirstEq(rest, 1) = 0 THEN rest ELSE SubSeq(rest, 1, FirstEq(rest, 1) - 1)

\* {item.split("=")[0]: item.split("=")[1] for item in text.split()}: raises
\* IndexError on an item without "="; a later item with the same key wins
ItemsParseError(items) == \E i \in DOMAIN items : FirstEq(items[i], 1) = 0

ItemsDict(items) ==
    LET keys == {SplitKey(items[i]) : i \in DOMAIN items}
        last(k) == CHOOSE i \in DOMAIN items :
                      /\ SplitKey(items[i]) = k
                      /\ \A j \in DOMAIN items : SplitKey(items[j]) = k => j <= i
    IN [k \in keys |-> SecondPiece(items[last(k)])]

\* SlurmdCharm._check_status
SlurmdReady(c) ==
    c.stored.slurm_installed = TRUE /\ c.joined = TRUE /\ c.stored.slurmctld_available = TRUE

Slurmd_check_status(c) ==
    Then(c, IF c.stored.slurm_installed # TRUE
            THEN [c EXCEPT !.status =
                    BlockedStatus("failed to install slurmd. see logs for further details")]
            ELSE IF c.joined # TRUE
            THEN [c EXCEPT !.status = BlockedStatus("Need relations: slurmctld")]
            ELSE IF c.stored.slurmctld_available # TRUE
            THEN [c EXCEPT !.status = WaitingStatus("Waiting on: slurmctld")]
            ELSE c)

\* SlurmdCharm._on_install, on a machine with no reboot pending
SlurmdCharm_on_install(c, fail) ==
    LET c0 == [c EXCEPT !.status = WaitingStatus("installing slurmd")]
        c1 == Call(c0, "slurmd.install", <<>>, fail)
        c2 == Call(c1, "nhc.install", <<>>, fail)
        c3 == Call(c2, "gpu.autoinstall", <<>>, fail)
        c4 == Call(c3, "version", <<>>, fail)
        c5 == Call(c4, "service.override_service", <<>>, fail)
        c6 == Call(c5, "systemd_notices.subscribe", <<>>, fail)
        c7 == Then(c6, [c6 EXCEPT !.sys.notices = TRUE, !.stored.slurm_installed = TRUE])
    IN Slurmd_check_status(CatchSlurmOpsErrorAndDefer(c7))

\* the ways `slurmd -C` fails in machine.get_slurmd_info: the command exits
\* with a status other than 0, or there is no slurmd binary on the machine
SlurmdInfoFailures == {"slurmd -C exit", "slurmd -C missing"}

\* SlurmdCharm.get_node: machine.get_slurmd_info() raises when `slurmd -C`
\* fails; after it the code calls gpu.get_all_gpu(), a name utils/gpu.py
\* does not define (the module has get_gpus), so every other call ends in
\* AttributeError and no node is returned
get_node(c, fail) ==
    Then(c, [c EXCEPT !.raised =
                CASE fail = "slurmd -C exit" -> "CalledProcessError"
                  [] fail = "slurmd -C missing" -> "FileNotFoundError"
                  [] OTHER -> "AttributeError"])

\* SlurmdCharm.get_partition: the partition the unit publishes
get_partition(c) ==
    c.stored.user_supplied_partition_parameters @@ (<<"State">> :> <<"UP">>)

\* Slurmctld.set_node and set_partition of the compute side's interface;
\* the node placed on the relation carries the unit's stored node
\* parameters and its new_node flag
set_node(c) ==
    Then(c, [c EXCEPT !.ops = Append(@, Op("slurmctld.set_node", <<>>, TRUE)),
                      !.sys.node =
                          Some([node_parameters |-> c.stored.user_supplied_node_parameters,
                                new_node |-> (c.stored.new_node = TRUE)])])

set_partition(c) ==
    Then(c, [c EXCEPT !.ops = Append(@, Op("slurmctld.set_partition", <<>>, TRUE)),
                      !.sys.partition = Some(get_partition(c))])

\* SlurmdCharm._on_config_changed; in holds nhc_conf (a string),
\* partition_config (optional item list) and leader
\* variant: the parsed parameters are stored before their keys are validated
SlurmdCharm_on_config_changed_unvalidated(c, in) ==
    LET c1 == IF in.nhc_conf # "" /\ in.nhc_conf # c.stored.nhc_conf
              THEN Call([c EXCEPT !.stored.nhc_conf = in.nhc_conf], "nhc.generate_config",
                        <<>>, in.fail)
              ELSE c
        pc == in.partition_config
    IN IF c1.raised # "none" \/ ~in.leader \/ pc = NoneValue THEN c1
       ELSE IF ItemsParseError(pc[1]) THEN c1
       ELSE LET c2 == [c1 EXCEPT !.stored.user_supplied_partition_parameters =
                                        ItemsDict(pc[1])]
            IN IF \E k \in DOMAIN ItemsDict(pc[1]) : k \notin PartitionOptionKeys THEN c2
               ELSE IF c2.joined THEN set_partition(c2) ELSE c2

SlurmdCharm_on_config_changed(c, in) ==
    LET c1 == IF in.nhc_conf # "" /\ in.nhc_conf # c.stored.nhc_conf
              THEN Call([c EXCEPT !.stored.nhc_conf = in.nhc_conf], "nhc.generate_config",
                        <<>>, in.fail)
              ELSE c
        pc == in.partition_config
    IN IF c1.raised # "none" \/ ~in.leader \/ pc = NoneValue THEN c1
       ELSE IF ItemsParseError(pc[1]) THEN c1
       ELSE IF \E k \in DOMAIN ItemsDict(pc[1]) : k \notin PartitionOptionKeys THEN c1
       ELSE LET c2 == [c1 EXCEPT !.stored.user_supplied_partition_parameters =
                                        ItemsDict(pc[1])]
            IN IF c2.joined THEN set_partition(c2) ELSE c2

\* SlurmdCharm._on_slurmctld_available; ev holds the optional fields
\* slurmctld_host, munge_key and nhc_params
SlurmdCharm_on_slurmctld_available(c, ev, fail) ==
    IF c.stored.slurm_installed # TRUE THEN [c EXCEPT !.deferred = TRUE]
    ELSE IF ev.slurmctld_host # Some(c.stored.slurmctld_host) /\ ev.slurmctld_host = NoneValue
    THEN c
    ELSE
      LET c1 == IF ev.slurmctld_host # Some(c.stored.slurmctld_host)
                THEN [c EXCEPT !.sys.config_server = ConfigServer(ev.slurmctld_host[1]),
                               !.stored.slurmctld_host = ev.slurmctld_host[1]]
                ELSE c
      IN IF ev.munge_key # Some(c1.stored.munge_key) /\ ev.munge_key = NoneValue
         THEN c1
         ELSE
           LET c2 == IF ev.munge_key # Some(c1.stored.munge_key)
                     THEN MungeKeySet([c1 EXCEPT !.stored.munge_key = ev.munge_key[1]],
                                      ev.munge_key[1], fail)
                     ELSE c1
           IN IF c2.raised # "none" THEN c2
              ELSE IF ev.nhc_params # Some(c2.stored.nhc_params) /\ ev.nhc_params = NoneValue
              THEN c2
              ELSE
                LET c3 == IF ev.nhc_params # Some(c2.stored.nhc_params)
                          THEN Call([c2 EXCEPT !.stored.nhc_params = ev.nhc_params[1]],
                                    "nhc.generate_wrapper", <<>>, fail)
                          ELSE c2
                    c4 == Then(c3, [c3 EXCEPT !.stored.slurmctld_available = TRUE])
                    c5 == CatchSlurmOpsError(MungeService(c4, "restart", fail))
                    c6 == SatService(c5, "restart", fail)
                IN Slurmd_check_status(c6)

\* SlurmdCharm._on_slurmctld_unavailable
SlurmdCharm_on_slurmctld_unavailable(c, fail) ==
    LET c1 == [c EXCEPT !.stored.slurmctld_available = FALSE, !.stored.nhc_params = "",
                        !.stored.munge_key = "", !.stored.slurmctld_host = ""]
    IN Slurmd_check_status(SatService(c1, "disable", fail))

\* SlurmdCharm._on_slurmd_started / _on_slurmd_stopped
SlurmdCharm_on_slurmd_started(c) == [c EXCEPT !.status = ActiveStatus("")]

SlurmdCharm_on_slurmd_stopped(c) == [c EXCEPT !.status = BlockedStatus("slurmd not running")]

\* SlurmdCharm._on_node_configured_action
SlurmdCharm_on_node_configured_action(c, fail) ==
    SatService(set_node([c EXCEPT !.stored.new_node = FALSE]), "restart", fail)

\* SlurmdCharm._on_node_config_action_event; params is the optional item list
\* of the action's "parameters"
SlurmdCharm_on_node_config_action_event(c, params, fail) ==
    LET tmp == IF params = NoneValue \/ ItemsParseError(params[1]) THEN <<>>
               ELSE ItemsDict(params[1])
        valid == /\ params # NoneValue => ~ItemsParseError(params[1])
                 /\ \A k \in DOMAIN tmp : k \in NodeOptionKeys /\ tmp[k] # <<>>
        c1 == IF params # NoneValue /\ valid /\ tmp # c.stored.user_supplied_node_parameters
              THEN set_node([c EXCEPT !.stored.user_supplied_node_parameters = tmp])
              ELSE c
    \* the results are built from get_node()["node_parameters"]: the call
    \* raises, so set_results is never reached
    IN get_node(c1, fail)

\* ------------------------------------------ SlurmdCharm._ranges_and_strides
\* enumerate(nums) grouped by element minus index: a group is a sequence of
\* <<index, element>> pairs, cur the group being filled
RECURSIVE GroupBy(_, _, _, _)
GroupBy(nums, i, cur, groups) ==
    IF i > Len(nums) THEN (IF cur = <<>> THEN groups ELSE Append(groups, cur))
    ELSE IF cur = <<>> \/ cur[Len(cur)][2] - cur[Len(cur)][1] = nums[i] - (i - 1)
    THEN GroupBy(nums, i + 1, Append(cur, <<i - 1, nums[i]>>), groups)
    ELSE GroupBy(nums, i + 1, <<<<i - 1, nums[i]>>>>, Append(groups, cur))

\* out.rstrip(",")
RECURSIVE rstrip_comma(_)
rstrip_comma(out) ==
    IF out # <<>> /\ out[Len(out)] = "," THEN rstrip_comma(SubSeq(out, 1, Len(out) - 1))
    ELSE out

\* variant: every group is written first-last, a single member too
RECURSIVE RangesOut_all_ranges(_)
RangesOut_all_ranges(groups) ==
    IF groups = <<>> THEN <<>>
    ELSE LET group == Head(groups)
         IN <<ToString(group[1][2]), "-", ToString(group[Len(group)][2]), ",">>
            \o RangesOut_all_ranges(Tail(groups))

\* the loop body: what each group adds to out
RECURSIVE RangesOut(_)
RangesOut(groups) ==
    IF groups = <<>> THEN <<>>
    ELSE LET group == Head(groups)
         IN (IF Len(group) = 1 THEN <<ToString(group[1][2]), ",">>
             ELSE <<ToString(group[1][2]), "-", ToString(group[Len(group)][2]), ",">>)
            \o RangesOut(Tail(groups))

\* the returned string, as its pieces
_ranges_and_strides(nums) ==
    rstrip_comma(<<"[">> \o RangesOut(GroupBy(nums, 1, <<>>, <<>>))) \o <<"]">>

\* ------------------------------------------------------------- slurmdbd
\* SlurmdbdCharm: the database parameters it keeps
SlurmdbdStoredDefault == [db_info |-> <<>>]

SLURM_ACCT_DB == "slurm_acct_db"

\* ep.strip(): blanks at both ends are dropped
RECURSIVE strip(_)
strip(text) ==
    IF text # <<>> /\ Head(text) = " " THEN strip(Tail(text))
    ELSE IF text # <<>> /\ text[Len(text)] = " " THEN strip(SubSeq(text, 1, Len(text) - 1))
    ELSE text

\* the endpoints of the comma-separated list, trimmed, the empty ones dropped
Endpoints(text) ==
    IF text = NoneValue THEN <<>>
    ELSE SelectSeq([i \in DOMAIN CommaItems(text[1]) |-> strip(CommaItems(text[1])[i])],
                   LAMBDA ep : ep # <<>>)

\* endpoint.rsplit(":", 1): the position of the last ":"
LastColon(ep) == CHOOSE i \in DOMAIN ep : ep[i] = ":" /\ \A j \in (i + 1)..Len(ep) : ep[j] # ":"

\* the address with the brackets of an IPv6 literal stripped
Unbracket(addr) ==
    IF addr # <<>> /\ Head(addr) = "[" /\ addr[Len(addr)] = "]"
    THEN SubSeq(addr, 2, Len(addr) - 1) ELSE addr

\* variant: the host and port of a TCP endpoint are stored next to the socket
DbInfoOf_both(ep, username, password) ==
    (<<"StorageUser">> :> username) @@ (<<"StoragePass">> :> password)
    @@ (<<"StorageLoc">> :> SLURM_ACCT_DB)
    @@ (<<"StorageHost">> :> IF Head(ep) = "file://" THEN Tail(ep)
                               ELSE Unbracket(SubSeq(ep, 1, LastColon(ep) - 1)))
    @@ (<<"StoragePort">> :> IF Head(ep) = "file://" THEN <<>>
                               ELSE SubSeq(ep, LastColon(ep) + 1, Len(ep)))

\* the db_info stored for the endpoint that is used
DbInfoOf(ep, username, password) ==
    (<<"StorageUser">> :> username) @@ (<<"StoragePass">> :> password)
    @@ (<<"StorageLoc">> :> SLURM_ACCT_DB)
    @@ (IF Head(ep) = "file://" THEN << >>
        ELSE (<<"StorageHost">> :> Unbracket(SubSeq(ep, 1, LastColon(ep) - 1)))
             @@ (<<"StoragePort">> :> SubSeq(ep, LastColon(ep) + 1, Len(ep))))

\* SlurmdbdCharm._on_database_created; ev holds endpoints (optional text),
\* username and password
SlurmdbdCharm_on_database_created(c, ev) ==
    LET eps == Endpoints(ev.endpoints)
    IN IF eps = <<>>
       THEN [c EXCEPT !.status = BlockedStatus("No database endpoints provided"),
                      !.raised = "ValueError"]
       ELSE LET ep == eps[1]
                c1 == IF Head(ep) = "file://"
                      THEN [c EXCEPT !.sys.mysql_unix_port = Some(Tail(ep))]
                      ELSE [c EXCEPT !.sys.mysql_unix_port = NoneValue]
                c2 == [c1 EXCEPT !.stored.db_info = DbInfoOf(ep, ev.username, ev.password)]
            IN Call(c2, "write_config_and_restart_slurmdbd", <<>>, "none")

\* ------------------------------------ consumer side of the slurmctld relation
\* Slurmctld._on_relation_changed (interface_slurmctld.py); payload.kind says
\* what the relation holds, emitted is the context after the charm's handler
\* of slurmctld_available has run on the fields of the payload.  A
\* cluster_info that decodes but whose members are not those the event takes
\* (bad_members) makes emit(**cluster_info) raise TypeError in
\* SlurmctldAvailableEvent.__init__, and nothing is emitted.
\* variant: a cluster_info that does not decode is logged and waited for
Interface_on_relation_changed_lenient(c, payload, emitted) ==
    LET d == CASE payload.kind \in {"no_app", "no_data"} -> c
               [] payload.kind \in {"no_cluster_info", "bad_json"} -> [c EXCEPT !.deferred = TRUE]
               [] payload.kind = "bad_members" -> [c EXCEPT !.raised = "TypeError"]
               [] OTHER -> emitted
    IN [d EXCEPT !.received = <<payload>>]

\* variant: a relation without application data is waited for as well
Interface_on_relation_changed_waiting(c, payload, emitted) ==
    LET d == CASE payload.kind = "no_app" -> c
               [] payload.kind \in {"no_data", "no_cluster_info"} -> [c EXCEPT !.deferred = TRUE]
               [] payload.kind = "bad_json" -> [c EXCEPT !.raised = "JSONDecodeError"]
               [] payload.kind = "bad_members" -> [c EXCEPT !.raised = "TypeError"]
               [] OTHER -> emitted
    IN [d EXCEPT !.received = <<payload>>]

Interface_on_relation_changed(c, payload, emitted) ==
    LET d == CASE payload.kind \in {"no_app", "no_data"} -> c
               [] payload.kind = "no_cluster_info" -> [c EXCEPT !.deferred = TRUE]
               [] payload.kind = "bad_json" -> [c EXCEPT !.raised = "JSONDecodeError"]
               [] payload.kind = "bad_members" -> [c EXCEPT !.raised = "TypeError"]
               [] OTHER -> emitted
    IN [d EXCEPT !.received = <<payload>>]

\* Slurmctld._on_relation_broken of the unit's interface: emitted is the
\* context after the charm's handler of slurmctld_unavailable
\* variant: the event is emitted only while the relation is still listed
Interface_on_relation_broken_listed(c, emitted) == IF c.joined THEN emitted ELSE c

Interface_on_relation_broken(c, emitted) == emitted

\* ------------------------------------- sackd, slurmd, slurmrestd: actions
SatEvent(name, data) == [name |-> name, data |-> data]

SatFresh == Cardinality(sat_deferred) < MaxDeferred
SatDelivered(ev) == ev \in sat_deferred \/ SatFresh

\* the end of a dispatch: ev was dispatched, dv is the event a defer() inside
\* the handler referred to, joined the relation's presence afterwards
SatCommit(ev, dv, cx, joined) ==
  \E c \in {cx} :
    /\ sat_stored' = c.stored
    /\ sat_status' = c.status
    /\ sat_sys' = c.sys
    /\ sat_joined' = joined
    /\ sat_deferred' = IF c.raised # "none" THEN sat_deferred
                       ELSE IF c.deferred THEN (sat_deferred \ {ev}) \cup {dv}
                       ELSE sat_deferred \ {ev}
    /\ sat_last' = [event |-> ev.name,
                    input |-> IF ev.name \in {"config_changed", "node_config",
                                               "ranges_and_strides", "database_created"}
                              THEN ev.data ELSE <<>>,
                    ops |-> c.ops, deferred |-> c.deferred,
                    raised |-> c.raised, results |-> c.results,
                    received |-> IF ev.name = "slurmctld_available"
                                 THEN <<[kind |-> "ok", fields |-> ev.data]>>
                                 ELSE c.received]
    /\ UNCHANGED <<charm, ctld_vars>>

\* the payloads a controller can leave on the relation for a login unit
HostValues == {NoneValue, Some("ctld-host")}
KeyValues == {NoneValue, Some(MungeKey)}
NhcValues == {NoneValue, Some("-X")}
ConfValues == {NoneValue, Some("slurm.conf")}

OtherPayloads ==
    {[kind |-> k, fields |-> <<>>] :
        k \in {"no_app", "no_data", "no_cluster_info", "bad_json", "bad_members"}}

SackdPayloads ==
    {[kind |-> "ok", fields |-> [slurmctld_host |-> h, auth_key |-> k]] :
        h \in HostValues, k \in KeyValues}

SlurmdPayloads ==
    {[kind |-> "ok", fields |-> [slurmctld_host |-> h, munge_key |-> k, nhc_params |-> n]] :
        h \in HostValues, k \in KeyValues, n \in NhcValues}

SlurmrestdPayloads ==
    {[kind |-> "ok", fields |-> [munge_key |-> k, slurm_conf |-> d]] :
        k \in KeyValues, d \in ConfValues}

\* the event a defer() inside a relation-changed dispatch keeps
DeferredOf(payload) ==
    IF payload.kind = "ok" THEN SatEvent("slurmctld_available", payload.fields)
    ELSE SatEvent("relation_changed", <<>>)

Pending(name) == {ev \in sat_deferred : ev.name = name}

\* --- sackd
Sackd_on_install(F) ==
    /\ charm = "sackd"
    /\ SatEvent("install", <<>>) \in sat_deferred
    /\ \E fail \in {"none"} \cup F :
        SatCommit(SatEvent("install", <<>>), SatEvent("install", <<>>),
                  SackdCharm_on_install(SatContext, fail), sat_joined)

Sackd_on_update_status ==
    /\ charm = "sackd"
    /\ SatCommit(SatEvent("update_status", <<>>), SatEvent("update_status", <<>>),
                 Sackd_check_status(SatContext), sat_joined)

Sackd_on_relation_changed(P, F) ==
    /\ charm = "sackd"
    /\ sat_joined
    /\ SatDelivered(SatEvent("relation_changed", <<>>))
    /\ \E payload \in P, fail \in {"none"} \cup F :
        SatCommit(SatEvent("relation_changed", <<>>), DeferredOf(payload),
                  Interface_on_relation_changed(SatContext, payload,
                      SackdCharm_on_slurmctld_available(SatContext, payload.fields, fail)),
                  sat_joined)

\* a deferred slurmctld_available is delivered again with its snapshot
Sackd_on_slurmctld_available(F) ==
    /\ charm = "sackd"
    /\ \E ev \in Pending("slurmctld_available"), fail \in {"none"} \cup F :
        SatCommit(ev, ev, SackdCharm_on_slurmctld_available(SatContext, ev.data, fail),
                  sat_joined)

\* relation-broken: the interface emits slurmctld_unavailable; whether the
\* relation still counts as joined inside the hook depends on the runtime
Sackd_on_relation_broken(F) ==
    /\ charm = "sackd"
    /\ sat_joined
    /\ \E fail \in {"none"} \cup F, j \in BOOLEAN :
        LET c0 == [SatContext EXCEPT !.joined = j]
            c == Interface_on_relation_broken(c0, SackdCharm_on_slurmctld_unavailable(c0, fail))
        IN SatCommit(SatEvent("slurmctld_unavailable", <<>>),
                     SatEvent("slurmctld_unavailable", <<>>), c, c.raised # "none")

\* --- slurmrestd
Slurmrestd_on_install(F) ==
    /\ charm = "slurmrestd"
    /\ SatEvent("install", <<>>) \in sat_deferred
    /\ \E fail \in {"none"} \cup F :
        SatCommit(SatEvent("install", <<>>), SatEvent("install", <<>>),
                  SlurmrestdCharm_on_install(SatContext, fail), sat_joined)

Slurmrestd_on_update_status ==
    /\ charm = "slurmrestd"
    /\ SatCommit(SatEvent("update_status", <<>>), SatEvent("update_status", <<>>),
                 Slurmrestd_check_status(SatContext), sat_joined)

Slurmrestd_on_relation_changed(P, F) ==
    /\ charm = "slurmrestd"
    /\ sat_joined
    /\ SatDelivered(SatEvent("relation_changed", <<>>))
    /\ \E payload \in P, fail \in {"none"} \cup F :
        SatCommit(SatEvent("relation_changed", <<>>), DeferredOf(payload),
                  Interface_on_relation_changed(SatContext, payload,
                      SlurmrestdCharm_on_slurmctld_available(SatContext, payload.fields, fail)),
                  sat_joined)

Slurmrestd_on_slurmctld_available(F) ==
    /\ charm = "slurmrestd"
    /\ \E ev \in Pending("slurmctld_available"), fail \in {"none"} \cup F :
        SatCommit(ev, ev, SlurmrestdCharm_on_slurmctld_available(SatContext, ev.data, fail),
                  sat_joined)

Slurmrestd_on_relation_broken(F) ==
    /\ charm = "slurmrestd"
    /\ sat_joined
    /\ \E fail \in {"none"} \cup F, j \in BOOLEAN :
        LET c0 == [SatContext EXCEPT !.joined = j]
            c == Interface_on_relation_broken(c0,
                                              SlurmrestdCharm_on_slurmctld_unavailable(c0, fail))
        IN SatCommit(SatEvent("slurmctld_unavailable", <<>>),
                     SatEvent("slurmctld_unavailable", <<>>), c, c.raised # "none")

\* --- slurmd
Slurmd_on_install(F) ==
    /\ charm = "slurmd"
    /\ SatEvent("install", <<>>) \in sat_deferred
    /\ \E fail \in {"none"} \cup F :
        SatCommit(SatEvent("install", <<>>), SatEvent("install", <<>>),
                  SlurmdCharm_on_install(SatContext, fail), sat_joined)

Slurmd_on_update_status ==
    /\ charm = "slurmd"
    /\ SatCommit(SatEvent("update_status", <<>>), SatEvent("update_status", <<>>),
                 Slurmd_check_status(SatContext), sat_joined)

\* values of the partition-config option and of the node-config parameters
PartitionConfigs ==
    {NoneValue, Some(<< <<"MaxTime", "=", "10">> >>), Some(<< <<"MaxTime">> >>),
     Some(<< <<"Bogus", "=", "1">> >>)}

NodeConfigs ==
    {NoneValue, Some(<< <<"Weight", "=", "2">> >>), Some(<< <<"Weight">> >>),
     Some(<< <<"Bogus", "=", "1">> >>), Some(<< <<"Weight", "=">> >>),
     Some(<< <<"Weight", "=", "2">>, <<"Gres", "=", "gpu:1">> >>),
     Some(<< <<"Weight", "=", "5">>, <<"Bogus", "=", "1">> >>),
     Some(<<>>)}

Slurmd_on_config_changed(NHC, PC) ==
    /\ charm = "slurmd"
    /\ \E nhc \in NHC, pc \in PC, l \in BOOLEAN, fail \in {"none", "nhc.generate_config"} :
        SatCommit(SatEvent("config_changed", [partition_config |-> pc, leader |-> l]),
                  SatEvent("config_changed", [partition_config |-> pc, leader |-> l]),
                  SlurmdCharm_on_config_changed(
                      SatContext,
                      [nhc_conf |-> nhc, partition_config |-> pc, leader |-> l,
                       fail |-> fail]),
                  sat_joined)

Slurmd_on_relation_changed(P, F) ==
    /\ charm = "slurmd"
    /\ sat_joined
    /\ SatDelivered(SatEvent("relation_changed", <<>>))
    /\ \E payload \in P, fail \in {"none"} \cup F :
        SatCommit(SatEvent("relation_changed", <<>>), DeferredOf(payload),
                  Interface_on_relation_changed(SatContext, payload,
                      SlurmdCharm_on_slurmctld_available(SatContext, payload.fields, fail)),
                  sat_joined)

Slurmd_on_slurmctld_available(F) ==
    /\ charm = "slurmd"
    /\ \E ev \in Pending("slurmctld_available"), fail \in {"none"} \cup F :
        SatCommit(ev, ev, SlurmdCharm_on_slurmctld_available(SatContext, ev.data, fail),
                  sat_joined)

Slurmd_on_relation_broken(F) ==
    /\ charm = "slurmd"
    /\ sat_joined
    /\ \E fail \in {"none"} \cup F, j \in BOOLEAN :
        LET c0 == [SatContext EXCEPT !.joined = j]
            c == Interface_on_relation_broken(c0, SlurmdCharm_on_slurmctld_unavailable(c0, fail))
        IN SatCommit(SatEvent("slurmctld_unavailable", <<>>),
                     SatEvent("slurmctld_unavailable", <<>>), c, c.raised # "none")

\* systemd notices, subscribed at install: the slurmd daemon has started
Slurmd_on_slurmd_started ==
    /\ charm = "slurmd"
    /\ sat_sys.notices
    /\ sat_sys.service = "restart"
    /\ SatCommit(SatEvent("slurmd_started", <<>>), SatEvent("slurmd_started", <<>>),
                 SlurmdCharm_on_slurmd_started(SatContext), sat_joined)

\* the slurmd daemon has stopped
Slurmd_on_slurmd_stopped ==
    /\ charm = "slurmd"
    /\ sat_sys.notices
    /\ sat_sys.service \in {"restart", "disable"}
    /\ SatCommit(SatEvent("slurmd_stopped", <<>>), SatEvent("slurmd_stopped", <<>>),
                 SlurmdCharm_on_slurmd_stopped(SatContext), sat_joined)

Slurmd_on_node_configured_action(F) ==
    /\ charm = "slurmd"
    /\ \E fail \in {"none"} \cup F :
        SatCommit(SatEvent("node_configured", <<>>), SatEvent("node_configured", <<>>),
                  SlurmdCharm_on_node_configured_action(SatContext, fail), sat_joined)

Slurmd_on_node_config_action(NC) ==
    /\ charm = "slurmd"
    /\ \E params \in NC, fail \in {"none"} \cup SlurmdInfoFailures :
        SatCommit(SatEvent("node_config", params), SatEvent("node_config", params),
                  SlurmdCharm_on_node_config_action_event(SatContext, params, fail),
                  sat_joined)

\* _ranges_and_strides applied to the sorted device indices of a GPU model
Slurmd_ranges_and_strides ==
    /\ charm = "slurmd"
    /\ SatCommit(SatEvent("ranges_and_strides", sat_sys.devices),
                 SatEvent("ranges_and_strides", sat_sys.devices),
                 [SatContext EXCEPT !.results = _ranges_and_strides(sat_sys.devices)],
                 sat_joined)

\* the database relation of a slurmdbd unit: E is the set of endpoint lists
\* and U the set of user names a database-created event may carry
Slurmdbd_on_database_created(E, U) ==
    /\ charm = "slurmdbd"
    /\ \E endpoints \in E, username \in U :
        LET ev == [endpoints |-> endpoints, username |-> username,
                   password |-> "fake-password"]
        IN SatCommit(SatEvent("database_created", ev), SatEvent("database_created", ev),
                     SlurmdbdCharm_on_database_created(SatContext, ev), sat_joined)

\* --- the environment of a sackd, slurmd or slurmrestd unit
\* the slurmctld relation is created, once the install hook has run
SatRelationJoined ==
    /\ charm \in {"sackd", "slurmd", "slurmrestd"}
    /\ ~sat_joined
    /\ sat_last.event # "none"
    /\ sat_joined' = TRUE
    /\ UNCHANGED <<charm, ctld_vars, sat_stored, sat_status, sat_sys, sat_deferred, sat_last>>

\* ------------------------------------------------------------------- Init
CtldStoredDefault ==
    [default_partition |-> "", jwt_key |-> "", munge_key |-> "",
     new_nodes |-> <<>>, nhc_params |-> "", slurm_installed |-> FALSE,
     slurmdbd_host |-> "", user_supplied_slurm_conf_params |-> EmptyString]

NeverAssembled ==
    [text |-> NoneValue, slurmdbd_host |-> "", facts |-> [n \in Nodes |-> "absent"],
     order |-> NodeOrder, exc |-> "never", doc |-> <<>>]

\* the charm's configuration before the operator sets anything: the
\* cluster-name option has the default osd-cluster (test_cluster_name)
ConfigDefault ==
    [slurm_conf_parameters |-> EmptyString, cgroup_parameters |-> NoneValue,
     default_partition |-> "", health_check_params |-> "",
     cluster_name |-> "osd-cluster"]

\* the controller's variables that no input touches
CtldInitRest ==
    /\ rest_joined = FALSE
    /\ rest_data = <<>>
    /\ sackd_data = <<>>
    /\ ctld_status = MaintenanceStatus
    /\ ctld_sys = [service |-> "unset", slurm_conf |-> <<>>, cgroup_conf |-> <<>>,
                   gres_conf |-> << >>]
    /\ ctld_deferred = {Event("install", "")}
    /\ ctld_last = [event |-> NoEvent, leader |-> leader, ops |-> <<>>, deferred |-> FALSE,
                    raised |-> "none", pass |-> "none", old |-> <<>>, new |-> <<>>,
                    transitioning |-> <<>>, installed_before |-> FALSE, action |-> <<>>]
    /\ resumed = [n \in Nodes |-> 0]
    /\ recorded = {}
    /\ assembled = NeverAssembled

CtldInit ==
    /\ leader \in BOOLEAN
    /\ container \in BOOLEAN
    /\ config = ConfigDefault
    /\ facts = [n \in Nodes |-> "absent"]
    /\ gres = [n \in Nodes |-> GresInfo(n)]
    /\ ctld_stored = CtldStoredDefault
    /\ CtldInitRest

\* strictly ascending lists of distinct device indices: every subset of
\* 0..MaxIndex in order, and the example of the docstring
RECURSIVE Ascending(_)
Ascending(S) ==
    IF S = {} THEN <<>>
    ELSE LET m == CHOOSE x \in S : \A y \in S : x <= y
         IN <<m>> \o Ascending(S \ {m})

ExampleInput == <<0, 1, 2, 3, 4, 5, 6, 8, 9, 10, 12, 14, 15, 16, 18>>

DeviceLists == {Ascending(S) : S \in SUBSET (0..MaxIndex)} \cup {ExampleInput}

SatInitWith(D) ==
    /\ sat_stored = CASE charm = "sackd" -> SackdStoredDefault
                      [] charm = "slurmd" -> SlurmdStoredDefault
                      [] charm = "slurmrestd" -> SlurmrestdStoredDefault
                      [] charm = "slurmdbd" -> SlurmdbdStoredDefault
                      [] OTHER -> <<>>
    /\ sat_status = MaintenanceStatus
    /\ sat_sys \in {[service |-> "unset", munge_service |-> "unset", munge_key |-> "",
                    slurm_conf |-> NoneValue, config_server |-> <<>>, notices |-> FALSE,
                    node |-> NoneValue, partition |-> NoneValue, devices |-> d,
                    mysql_unix_port |-> NoneValue] :
                        d \in D}
    /\ sat_joined = FALSE
    /\ sat_deferred = IF charm = "slurmctld" THEN {} ELSE {SatEvent("install", <<>>)}
    /\ sat_last = [event |-> "none", input |-> <<>>, ops |-> <<>>, deferred |-> FALSE,
                   raised |-> "none",
                   results |-> <<>>, received |-> <<>>]

\* a unit without GPUs
SatInit == SatInitWith({<<>>})

Init ==
    /\ charm = "slurmctld"
    /\ CtldInit
    /\ SatInit

\* The controller unit through installation, leadership changes and the
\* relations with slurmrestd and one compute node.
OneNode == {NodeNames[1]}

CtldNext ==
    \/ Ctld_on_install(CtldInstallFailures \cup {"config.dump"})
    \/ Ctld_on_update_status
    \/ Ctld_on_slurmd_available(OneNode, {})
    \/ Ctld_on_partition_event({"scontrol.reconfigure"})
    \/ Ctld_on_slurmrestd_available
    \/ LeaderChange
    \/ NodeFactChange(OneNode)
    \/ RestRelationJoined

Next == CtldNext

Spec == Init /\ [][Next]_vars

\* Every handler of the controller that leads to a reconfiguration pass, on a
\* unit that gains and loses leadership.
LeadershipNext ==
    \/ Ctld_on_install({})
    \/ Ctld_on_config_changed({})
    \/ Ctld_on_slurmdbd_available({"slurmdbd-host"}, {})
    \/ Ctld_on_slurmdbd_unavailable
    \/ Ctld_on_slurmd_available(OneNode, {})
    \/ Ctld_on_slurmd_departed({})
    \/ Ctld_on_partition_event({})
    \/ Ctld_on_slurmrestd_available
    \/ LeaderChange
    \/ NodeFactChange(OneNode)
    \/ SetConfig({EmptyString, <<PlainText>>})
    \/ RestRelationJoined

InitLeadership == Init /\ ~container

SpecLeadership == InitLeadership /\ [][LeadershipNext]_vars

\* The leader controller under operator configuration and the relations with
\* slurmdbd and slurmrestd.
DbdHosts == {"slurmdbd-host", "slurmdbd-2"}

ConfigNext ==
    \/ Ctld_on_install({"slurmctld.install"})
    \/ Ctld_on_update_status
    \/ Ctld_on_config_changed({})
    \/ Ctld_on_slurmdbd_available(DbdHosts, {"scontrol.reconfigure"})
    \/ Ctld_on_slurmdbd_unavailable
    \/ Ctld_on_slurmrestd_available
    \/ SetConfig({EmptyString, <<PlainText>>, <<MalformedLine>>})
    \/ RestRelationJoined

InitConfig == Init /\ leader /\ ~container

SpecConfig == InitConfig /\ [][ConfigNext]_vars

\* The reconfiguration of a leader as compute nodes join, are configured and
\* depart; the resume command may fail.
ResumeNext ==
    \/ Ctld_on_install({})
    \/ Ctld_on_slurmd_available(Nodes, {"scontrol.update"})
    \/ Ctld_on_slurmd_departed({})
    \/ Ctld_on_partition_event({})
    \/ NodeFactChange(Nodes)

InitResume == Init /\ leader /\ ~container

SpecResume == InitResume /\ [][ResumeNext]_vars

\* A login, compute or REST unit through installation, the slurmctld relation
\* and its payloads, configuration and actions.
InitUnit ==
    /\ charm \in {"sackd", "slurmd", "slurmrestd"}
    /\ CtldInit /\ leader /\ ~container
    /\ SatInit

UnitNext ==
    \/ Sackd_on_install({"sackd.install", "service.disable"})
    \/ Sackd_on_update_status
    \/ Sackd_on_relation_changed(SackdPayloads \cup OtherPayloads,
                                 {"munge.service.restart", "service.enable"})
    \/ Sackd_on_slurmctld_available({"munge.service.restart", "service.enable"})
    \/ Sackd_on_relation_broken({"service.disable"})
    \/ Slurmrestd_on_install({"slurmrestd.install"})
    \/ Slurmrestd_on_update_status
    \/ Slurmrestd_on_relation_changed(SlurmrestdPayloads \cup OtherPayloads,
                                      {"munge.service.restart", "service.restart"})
    \/ Slurmrestd_on_slurmctld_available({"munge.service.restart", "service.restart"})
    \/ Slurmrestd_on_relation_broken({"service.disable", "munge.service.disable"})
    \/ Slurmd_on_install({"slurmd.install", "nhc.install", "gpu.autoinstall"})
    \/ Slurmd_on_update_status
    \/ Slurmd_on_config_changed({"nhc.conf"}, {NoneValue})
    \/ Slurmd_on_relation_changed(SlurmdPayloads \cup OtherPayloads,
                                  {"munge.service.restart", "service.restart",
                                   "nhc.generate_wrapper"})
    \/ Slurmd_on_slurmctld_available({"service.restart", "nhc.generate_wrapper"})
    \/ Slurmd_on_relation_broken({"service.disable"})
    \/ Slurmd_on_slurmd_started
    \/ Slurmd_on_slurmd_stopped
    \/ Slurmd_on_node_configured_action({"service.restart"})
    \/ Slurmd_on_node_config_action({NoneValue})
    \/ SatRelationJoined

SpecUnit == InitUnit /\ [][UnitNext]_vars

\* A controller whose operator sets and resets default-partition,
\* health-check-params and slurm-conf-parameters between config-changed
\* events.
InitOptions == Init /\ ~container

OptionsNext ==
    \/ Ctld_on_install({})
    \/ Ctld_on_config_changed({})
    \/ SetConfig({EmptyString, <<PlainText>>})
    \/ SetOptions({"", "slurmd"}, {"", "-X"})

SpecOptions == InitOptions /\ [][OptionsNext]_vars

\* ------------------------------- slurmctld: the login-node relation
\* json.dumps of the cluster information: the text of an object, member by
\* member; the empty text is << >>
JsonDumps(info) == << <<"auth_key", info.auth_key>>, <<"slurmctld_host", info.slurmctld_host>> >>

\* json.loads of such a text: the members the text holds, each with its
\* value; of a member name that is repeated the last occurrence wins
JsonLoads(text) ==
    [f \in {text[i][1] : i \in DOMAIN text} |->
        Some(text[CHOOSE i \in DOMAIN text :
                    /\ text[i][1] = f
                    /\ \A j \in DOMAIN text : text[j][1] = f => j <= i][2])]

\* SlurmctldCharm.hostname, SlurmctldCharm.get_munge_key
Hostname == "ctld-host"

get_munge_key(stored) == stored.munge_key

\* interface_sackd.py, Sackd._on_relation_created
\* variant: the cluster information is published without waiting for the
\* installation
InterfaceSackd_on_relation_created_eager(c, in) ==
    IF ~in.leader THEN [c EXCEPT !.raised = "RelationDataAccessError"]
    ELSE [c EXCEPT !.sackd = Some(JsonDumps([auth_key |-> get_munge_key(c.stored),
                                             slurmctld_host |-> Hostname]))]

InterfaceSackd_on_relation_created(c, in) ==
    IF c.stored.slurm_installed # TRUE THEN [c EXCEPT !.deferred = TRUE]
    ELSE IF ~in.leader THEN [c EXCEPT !.raised = "RelationDataAccessError"]
    ELSE [c EXCEPT !.sackd = Some(JsonDumps([auth_key |-> get_munge_key(c.stored),
                                             slurmctld_host |-> Hostname]))]

\* interface_sackd.py, Sackd._on_relation_broken
\* an empty value removes the cluster_info key from the application data
InterfaceSackd_on_relation_broken(c, in) ==
    IF in.leader THEN [c EXCEPT !.sackd = NoneValue] ELSE c

\* relation-created reaches the controller once the login unit has joined,
\* and again when it had been deferred
Ctld_on_login_relation_created ==
    /\ charm \in {"slurmctld", "sackd"}
    /\ \/ sat_joined /\ sackd_data = NoneValue /\ Fresh
       \/ Event("login_relation_created", "") \in ctld_deferred
    /\ CtldCommit(Event("login_relation_created", ""),
                  InterfaceSackd_on_relation_created(CtldContext, CtldInputs("none", NodeOrder)))

\* relation-broken reaches the controller when the login unit has gone
Ctld_on_login_relation_broken ==
    /\ charm \in {"slurmctld", "sackd"}
    /\ ~sat_joined
    /\ sackd_data # NoneValue
    /\ CtldCommit(Event("login_relation_broken", ""),
                  InterfaceSackd_on_relation_broken(CtldContext, CtldInputs("none", NodeOrder)))

\* what the login unit finds on the relation: no application data while the
\* controller's application data holds no cluster_info key, else the
\* decoded cluster_info, which the event takes when its members are auth_key
\* and slurmctld_host
PublishedPayload ==
    IF sackd_data = NoneValue THEN [kind |-> "no_data", fields |-> <<>>]
    ELSE IF DOMAIN JsonLoads(sackd_data[1]) # {"auth_key", "slurmctld_host"}
    THEN [kind |-> "bad_members", fields |-> <<>>]
    ELSE [kind |-> "ok", fields |-> JsonLoads(sackd_data[1])]

\* A controller and a login unit related to it: both install, the relation is
\* created, changed and broken, the login unit reads what the controller has
\* published.
InitLogin ==
    /\ charm = "sackd"
    /\ CtldInit
    /\ SatInit

LoginNext ==
    \/ Ctld_on_install({"munge.key.generate"})
    \/ Ctld_on_login_relation_created
    \/ Ctld_on_login_relation_broken
    \/ Sackd_on_install({"sackd.install"})
    \/ SatRelationJoined
    \/ Sackd_on_relation_changed({PublishedPayload}, {"service.enable"})
    \/ Sackd_on_slurmctld_available({"service.enable"})
    \/ Sackd_on_relation_broken({"service.disable"})

SpecLogin == InitLogin /\ [][LoginNext]_vars

\* The gres.conf of a controller as compute nodes join, find and lose GPUs
\* and depart.
InitGres == Init /\ ~container

GresNext ==
    \/ Ctld_on_install({})
    \/ Ctld_on_slurmd_available(Nodes, {})
    \/ Ctld_on_slurmd_departed({})
    \/ NodeFactChange(Nodes)
    \/ GresChange(Nodes, {GresInfo(NodeNames[1])})

SpecGres == InitGres /\ [][GresNext]_vars

\* The reconfiguration pass of a leader, in a container or not, with and
\* without slurmrestd, as a compute node joins and is configured; every
\* operation of the pass may fail.
InitPass == Init /\ leader

PassNext ==
    \/ Ctld_on_install({})
    \/ Ctld_on_slurmd_available(OneNode, CtldPassFailures)
    \/ Ctld_on_partition_event(CtldPassFailures)
    \/ NodeFactChange(OneNode)
    \/ RestRelationJoined

SpecPass == InitPass /\ [][PassNext]_vars

\* The operator's drain and resume actions on a controller, installed or
\* not, with and without a database; the command may fail.
ActionNodeLists ==
    {<<"node1">>, <<"node1", ",", "node2">>, <<"node[1-4]">>, <<"node1", SingleQuote>>,
     <<"node", Backslash, "1">>}
ActionReasons ==
    {<<"maintenance">>, <<"bad", Space, "disk">>, <<"5", Quote, Space, "rack">>,
     <<"it", SingleQuote, "s">>, <<"rack", Space, "5", Backslash>>}

InitAction == Init /\ leader /\ ~container

ActionNext ==
    \/ Ctld_on_install({"slurmctld.install"})
    \/ Ctld_on_update_status
    \/ Ctld_on_slurmdbd_available({"slurmdbd-host"}, {})
    \/ Ctld_on_slurmdbd_unavailable
    \/ Ctld_on_drain_nodes_action(ActionNodeLists, ActionReasons, {"subprocess.check_output"})
    \/ Ctld_on_resume_nodes_action(ActionNodeLists, {"subprocess.check_output"})

SpecAction == InitAction /\ [][ActionNext]_vars

\* A unit of any of the four roles through installation, the slurmctld
\* relation and the update-status heartbeat.
InitStatus ==
    /\ charm \in {"slurmctld", "sackd", "slurmd", "slurmrestd"}
    /\ CtldInit /\ leader /\ ~container
    /\ SatInit

StatusNext ==
    \/ Ctld_on_install({"slurmctld.install"})
    \/ Ctld_on_update_status
    \/ Ctld_on_slurmdbd_available({"slurmdbd-host"}, {"scontrol.reconfigure"})
    \/ Ctld_on_slurmdbd_unavailable
    \/ Sackd_on_install({"sackd.install"})
    \/ Sackd_on_update_status
    \/ Sackd_on_relation_changed(SackdPayloads, {})
    \/ Sackd_on_relation_broken({})
    \/ Slurmrestd_on_install({"slurmrestd.install"})
    \/ Slurmrestd_on_update_status
    \/ Slurmrestd_on_relation_changed(SlurmrestdPayloads, {})
    \/ Slurmrestd_on_relation_broken({})
    \/ Slurmd_on_install({"slurmd.install"})
    \/ Slurmd_on_update_status
    \/ Slurmd_on_relation_changed(SlurmdPayloads, {})
    \/ Slurmd_on_relation_broken({})
    \/ SatRelationJoined

SpecStatus == InitStatus /\ [][StatusNext]_vars

\* _ranges_and_strides as a function of the device indices of a GPU model.
InitRanges ==
    /\ charm = "slurmd"
    /\ CtldInit /\ leader /\ ~container
    /\ SatInitWith(DeviceLists)

RangesNext == Slurmd_ranges_and_strides

SpecRanges == InitRanges /\ [][RangesNext]_vars

\* A slurmdbd unit as database-created events arrive with socket, TCP, IPv6
\* and empty endpoint lists.
SocketEndpoint == <<"file://", "/path/to/some/socket">>
SocketEndpoints ==
    <<" ", "file://", "/some/other/path", ",", " ", "file://", "/path/to/some/socket", " ">>
TcpEndpoint == <<"10.2.5.20", ":", "1234">>
TcpEndpoints ==
    <<"10.2.5.20", ":", "1234", " ", ",", "10.2.5.21", ":", "1234", ",", " ",
      "10.2.5.21", ":", "1234">>
Ipv6Endpoints ==
    <<"[", "9ee0", ":", "49d9", ":", "0c4e", "]", ":", "1234", " ", ",",
      "[", "e7d5", ":", "2c42", ":", "f333", "]", ":", "1234">>
DatabaseEndpoints ==
    {NoneValue, Some(<<>>), Some(<<" ", ",", " ">>), Some(SocketEndpoint),
     Some(SocketEndpoints), Some(TcpEndpoint), Some(TcpEndpoints), Some(Ipv6Endpoints),
     Some(<<"mysql-host", ":", "3306">>), Some(<<" ", "10.2.5.21", ":", "3306", " ", ",">>)}

InitDatabase ==
    /\ charm = "slurmdbd"
    /\ CtldInit /\ leader /\ ~container
    /\ SatInit

DatabaseNext == Slurmdbd_on_database_created(DatabaseEndpoints, {"fake-user", "other-user"})

SpecDatabase == InitDatabase /\ [][DatabaseNext]_vars

\* A login or compute unit on its way to readiness.  The installation may
\* fail and is retried, the relation may hold anything and may break; the
\* fairness conditions say that a deferred event is delivered again, that an
\* installation succeeds in the end, that a broken relation is followed by a
\* new one and that the controller's complete cluster_info reaches the unit
\* by a relation-changed event.
SackdFull == [kind |-> "ok", fields |-> [slurmctld_host |-> Some("ctld-host"),
                                         auth_key |-> Some(MungeKey)]]
SlurmdFull == [kind |-> "ok", fields |-> [slurmctld_host |-> Some("ctld-host"),
                                          munge_key |-> Some(MungeKey),
                                          nhc_params |-> Some("-X")]]

\* what the relation may hold: the complete publication, one that lacks a
\* field, a data bucket without cluster_info, no data bucket
ConvergePayloads ==
    {IF charm = "sackd" THEN SackdFull ELSE SlurmdFull,
     IF charm = "sackd" THEN [SackdFull EXCEPT !.fields.auth_key = NoneValue]
     ELSE [SlurmdFull EXCEPT !.fields.nhc_params = NoneValue],
     [kind |-> "no_cluster_info", fields |-> <<>>], [kind |-> "no_data", fields |-> <<>>]}

InitConverge ==
    /\ charm \in {"sackd", "slurmd"}
    /\ CtldInit /\ leader /\ ~container
    /\ SatInit

ConvergeNext ==
    \/ Sackd_on_install({"sackd.install", "service.disable"})
    \/ Sackd_on_relation_changed(ConvergePayloads, {})
    \/ Sackd_on_slurmctld_available({})
    \/ Sackd_on_relation_broken({})
    \/ Slurmd_on_install({"slurmd.install", "nhc.install"})
    \/ Slurmd_on_relation_changed(ConvergePayloads, {})
    \/ Slurmd_on_slurmctld_available({})
    \/ Slurmd_on_relation_broken({})
    \/ SatRelationJoined

ConvergeFairness ==
    /\ WF_vars(Sackd_on_install({}))
    /\ WF_vars(Slurmd_on_install({}))
    /\ WF_vars(Sackd_on_slurmctld_available({}))
    /\ WF_vars(Slurmd_on_slurmctld_available({}))
    /\ WF_vars(SatRelationJoined)
    /\ SF_vars(Sackd_on_relation_changed({SackdFull}, {}))
    /\ SF_vars(Slurmd_on_relation_changed({SlurmdFull}, {}))

SpecConverge == InitConverge /\ [][ConvergeNext]_vars /\ ConvergeFairness

\* A compute unit under operator configuration: partition-config and the
\* node-config action with well-formed, malformed and disallowed values.
InitNode ==
    /\ charm = "slurmd"
    /\ CtldInit /\ leader /\ ~container
    /\ SatInit

NodeNext ==
    \/ Slurmd_on_install({"slurmd.install"})
    \/ Slurmd_on_update_status
    \/ Slurmd_on_config_changed({""}, PartitionConfigs)
    \/ Slurmd_on_node_config_action(NodeConfigs)
    \/ Slurmd_on_node_configured_action({})
    \/ SatRelationJoined

SpecNode == InitNode /\ [][NodeNext]_vars

\* _assemble_slurm_conf as a function of its inputs: the override text, the
\* recorded database host, the compute-node facts and the container flag.
EqText == <<"JobAcctGatherFrequency", "=", "task", "=", "30", ",", "network", "=", "40">>
CommentLine == <<"#", "SlurmdPort", "=", "1">>
BlankLine == <<" ", " ">>
SctldText ==
    <<"SlurmctldParameters", "=", "power_save_interval", "=", "10", ",",
      "enable_configless", "=", "False">>

AssembleTexts ==
    {EmptyString, <<PlainText>>, <<ClashText>>, <<PlainText, ClashText>>,
     << <<"ClusterName", "=", "mine">> >>,
     <<EqText>>, <<PlainText, EqText>>, <<CommentLine, EqText, BlankLine, <<>> >>,
     <<CommentLine, BlankLine>>, <<SctldText>>, <<PlainText, SctldText>>,
     << <<"SlurmctldParameters", "=">> >>}

InitAssemble ==
    /\ charm = "slurmctld"
    /\ leader = TRUE
    /\ container \in BOOLEAN
    /\ config \in {[ConfigDefault EXCEPT !.slurm_conf_parameters = text] :
                     text \in AssembleTexts}
    /\ facts \in [Nodes -> {"absent", "new", "configured"}]
    /\ gres = [n \in Nodes |-> GresInfo(n)]
    /\ ctld_stored \in {[CtldStoredDefault EXCEPT !.slurmdbd_host = host] :
                          host \in {"", "slurmdbd-host"}}
    /\ CtldInitRest
    /\ SatInit

Assemble ==
    /\ charm = "slurmctld"
    /\ \E order \in NodeOrders :
        LET a == _assemble_slurm_conf(ctld_stored, config, facts, container, order)
        IN assembled' = [text |-> config.slurm_conf_parameters,
                         slurmdbd_host |-> ctld_stored.slurmdbd_host,
                         facts |-> facts, order |-> order, exc |-> a.exc, doc |-> a.doc]
    /\ UNCHANGED <<charm, leader, container, config, facts, gres, rest_joined, rest_data, sackd_data,
                   ctld_stored, ctld_status, ctld_sys, ctld_deferred, ctld_last, resumed,
                   recorded, sat_vars>>

\* between two runs compute nodes join, are configured and depart, in any order
AssembleNext ==
    \/ Assemble
    \/ NodeFactChange(Nodes)

SpecAssemble == InitAssemble /\ [][AssembleNext]_vars

\* ================================================================ properties
\* the operations of the last controller handler that ran a command
CmdsOf(ops) == [i \in DOMAIN ops |-> ops[i].cmd]
OpsNamed(ops, cmd) == SelectSeq(ops, LAMBDA op : op.cmd = cmd)

PassCompleted == ctld_last.pass = "completed"

\* the new-node names of the document the last completed pass wrote
WrittenNewNodes == _get_new_node_names_from_slurm_config(ctld_sys.slurm_conf[1])

\* C1 as stated: after every reconfiguration pass that runs to completion the
\* recorded new-node list equals the new-node set of the document just
\* assembled, also when no node is transitioning.
C1_RecordedEqualsAssembled ==
    PassCompleted => SeqToSet(ctld_stored.new_nodes) = SeqToSet(WrittenNewNodes)

\* what the pass does with the recorded list: after a completed pass in which
\* some node was transitioning it equals the new-node set of the document
\* just assembled; a completed pass with no transitioning node leaves the
\* list as it found it
RecordedOnlyWhenTransitioning ==
    PassCompleted =>
        /\ ctld_last.new = WrittenNewNodes
        /\ IF ctld_last.transitioning # <<>>
           THEN SeqToSet(ctld_stored.new_nodes) = SeqToSet(WrittenNewNodes)
           ELSE ctld_stored.new_nodes = ctld_last.old

\* C2: every node that was recorded as new and has left the recorded list was
\* named in exactly one successful resume command; no node is resumed twice,
\* none is resumed while still recorded as new, none leaves the recorded list
\* without its resume, also when a resume command failed and was retried.
C2_ResumedExactlyOnce ==
    \A n \in Nodes :
        /\ resumed[n] <= 1
        /\ resumed[n] >= 1 => ~IsIn(n, ctld_stored.new_nodes)
        /\ (n \in recorded /\ ~IsIn(n, ctld_stored.new_nodes)) => resumed[n] = 1

\* a resume command failed in the last handler for a node that is still
\* recorded, after another node had been resumed
C2_Witness ==
    /\ ctld_last.pass = "raised"
    /\ ctld_last.transitioning # <<>>
    /\ \E i \in DOMAIN ctld_last.ops :
            ctld_last.ops[i].cmd = "scontrol.update" /\ ~ctld_last.ops[i].ok
    /\ \E n \in Nodes : resumed[n] = 1

\* C3: in a pass the transitioning nodes are the recorded new nodes that are
\* not new in the assembled document; when there are some the controller
\* issues one scontrol call update nodename=<names joined by commas>
\* state=resume, and when there are none it issues no resume call.
C3_SingleBatchedResume ==
    LET calls == OpsNamed(ctld_last.ops, "scontrol.update")
        names == ctld_last.transitioning
    IN /\ Len(calls) <= 1
       /\ PassCompleted =>
            /\ SeqToSet(names) = {n \in Nodes : IsIn(n, ctld_last.old)
                                                /\ ~IsIn(n, WrittenNewNodes)}
            /\ NoDup(names)
            /\ names = <<>> => calls = <<>>
            /\ names # <<>> =>
                /\ Len(calls) = 1
                /\ calls[1].args = << <<"update">>, <<"nodename=">> \o Join(names),
                                      <<"state=resume">> >>

\* a completed pass resumed two nodes in one call
C3_Witness ==
    /\ PassCompleted
    /\ Len(ctld_last.transitioning) = 2
    /\ Len(OpsNamed(ctld_last.ops, "scontrol.update")) = 1

\* the commands by which a controller writes its files, drives its service,
\* reconfigures or resumes nodes, or pushes to slurmrestd
LeaderOnlyCmds ==
    {"config.dump", "cgroup.dump", "gres.edit", "gres.dump", "service.disable",
     "service.enable", "service.restart", "scontrol.reconfigure", "scontrol.update",
     "slurmrestd.set_slurm_config"}

InstallCmds ==
    <<"slurmctld.install", "jwt.generate", "munge.key.generate", "munge.key.get",
      "munge.service.restart", "service.restart", "exporter.service.enable", "version">>

\* C8: a non-leader controller unit never installs: its install handler runs
\* no installation step, ends Blocked with 'slurmctld high-availability not
\* supported' and defers the event; slurm_installed turns true only in a
\* delivery of install during which the unit is the leader.
C8_NonLeaderNeverInstalls ==
    [][/\ (ctld_last'.event.name = "install" /\ ~ctld_last'.leader)
            => /\ ctld_last'.ops = <<>>
               /\ ctld_status' = BlockedStatus("slurmctld high-availability not supported")
               /\ ctld_last'.deferred
               /\ Event("install", "") \in ctld_deferred'
       /\ ~leader => ctld_stored'.slurm_installed = ctld_stored.slurm_installed
       /\ (ctld_stored'.slurm_installed /\ ~ctld_stored.slurm_installed)
            => (ctld_last'.event.name = "install" /\ ctld_last'.leader)
      ]_vars

\* an install was delivered to a non-leader unit after an attempt as leader
\* had failed
C8_Witness ==
    /\ ctld_last.event.name = "install"
    /\ ~ctld_last.leader
    /\ ctld_last.deferred
    /\ ctld_stored.munge_key # ""
    /\ ~ctld_stored.slurm_installed

\* C9: a handler that runs while the unit is not the leader writes no
\* slurm.conf, cgroup.conf or gres.conf, does not disable or enable the
\* service, issues no scontrol reconfigure or resume and pushes nothing to
\* slurmrestd; leadership is the one read in that dispatch, so this also holds
\* for a unit that was the leader in an earlier event.
C9_NonLeaderNoOps ==
    [][~leader
            => /\ ctld_sys' = ctld_sys
               /\ rest_data' = rest_data
               /\ resumed' = resumed
               /\ \/ ctld_last' = ctld_last
                  \/ \A i \in DOMAIN ctld_last'.ops :
                        ctld_last'.ops[i].cmd \notin LeaderOnlyCmds
      ]_vars

\* a unit that installed as the leader and has written its configuration
\* handled the arrival of a compute node after losing leadership
C9_Witness ==
    /\ ctld_stored.slurm_installed
    /\ ctld_sys.slurm_conf # <<>>
    /\ ~ctld_last.leader
    /\ ctld_last.event.name = "slurmd_available"
    /\ ctld_last.pass = "not_leader"

\* the trace of the last handler holds the whole installation, in order
InstallSucceeded ==
    /\ ctld_last.event.name = "install"
    /\ Len(ctld_last.ops) >= Len(InstallCmds)
    /\ \A i \in DOMAIN InstallCmds :
            ctld_last.ops[i].cmd = InstallCmds[i] /\ ctld_last.ops[i].ok

\* C10: slurm_installed implies that a munge key and a JWT key are recorded;
\* an install whose steps all succeed ran on the leader, generated the keys
\* before restarting munge, recorded them, set slurm_installed, went on to the
\* reconfiguration pass in the same dispatch and did not defer the event; an
\* install that stopped at a failing step left slurm_installed as it was.
C10_InstallRecordsKeysFirst ==
    /\ ctld_stored.slurm_installed
          => /\ ctld_stored.munge_key = MungeKey
             /\ "jwt_rsa" \in DOMAIN ctld_stored
             /\ ctld_stored.jwt_rsa = JwtKey
    /\ InstallSucceeded
          => /\ ctld_last.leader
             /\ ctld_stored.slurm_installed
             /\ ~ctld_last.deferred
             /\ ctld_last.pass \in {"completed", "raised"}
             /\ Len(ctld_last.ops) > Len(InstallCmds)
    /\ (ctld_last.event.name = "install" /\ ~InstallSucceeded /\ ~ctld_last.installed_before)
          => ~ctld_stored.slurm_installed

\* the leader installed and completed the pass in the same dispatch
C10_Witness ==
    /\ InstallSucceeded
    /\ ctld_last.pass = "completed"
    /\ ctld_status = ActiveStatus("")

\* the keys the charm itself gives to the document
CharmKeys(slurmdbd_host) ==
    DOMAIN CHARM_MAINTAINED_SLURM_CONF_PARAMETERS
        \cup DOMAIN ExplicitParams("", FALSE)
        \cup DOMAIN AccountingParams(slurmdbd_host)

\* C4: for every key present both in the charm's parameters and in the
\* user-supplied slurm-conf-parameters, _assemble_slurm_conf returns a
\* document whose value for that key is the user-supplied value.
C4_UserOverridesWin ==
    (assembled.exc # "never" /\ ~UserParseError(assembled.text)) =>
        LET user == _get_user_supplied_parameters(assembled.text)
        IN \A k \in DOMAIN user \cap CharmKeys(assembled.slurmdbd_host) :
                /\ assembled.exc = "none"
                /\ assembled.doc[1][k] = user[k]

\* C5: on a login or compute unit slurmctld_available, once true, is set back
\* to false by no handler other than slurmctld-unavailable.
C5_AvailabilityMonotonic ==
    [][(/\ charm \in {"sackd", "slurmd"}
        /\ sat_stored.slurmctld_available
        /\ ~sat_stored'.slurmctld_available)
            => sat_last'.event = "slurmctld_unavailable"
      ]_vars

\* an available compute unit handled a relation-changed that brought nothing
\* to install, such as one with a missing field
C5_Witness ==
    /\ charm = "slurmd"
    /\ sat_stored.slurmctld_available
    /\ sat_last.event = "relation_changed"
    /\ sat_last.ops = <<>>
    /\ ~sat_last.deferred

\* C6: _check_status is true on a login or compute unit, and a REST unit
\* reports ActiveStatus, only if the unit is installed, the slurmctld relation
\* is joined and the munge key received from the controller is installed (for
\* the REST unit, with slurm.conf).
C6_ReadinessGate ==
    /\ (charm = "sackd" /\ SackdReady(SatContext))
            => (sat_stored.sackd_installed /\ sat_joined /\ sat_sys.munge_key # "")
    /\ (charm = "slurmd" /\ SlurmdReady(SatContext))
            => (sat_stored.slurm_installed /\ sat_joined /\ sat_sys.munge_key # "")
    /\ (charm = "slurmrestd" /\ sat_status = ActiveStatus(""))
            => /\ sat_stored.slurm_installed
               /\ sat_sys.munge_key # ""
               /\ sat_sys.slurm_conf # NoneValue

\* some operation of the handler failed
SomeOpFailed(ops) == \E i \in DOMAIN ops : ~ops[i].ok

FailedToInstall(role) ==
    BlockedStatus("failed to install " \o role \o ". see logs for further details")

\* the installed flag of a login, compute or REST unit
SatInstalled(stored) ==
    IF charm = "sackd" THEN stored.sackd_installed = TRUE ELSE stored.slurm_installed = TRUE

\* C7: in every role, when a step of the installation of a unit that is not
\* yet installed fails, the install handler lets no error escape, defers the
\* install event, leaves the installed flag false and ends Blocked with
\* 'failed to install <role>. see logs for further details'.
C7_InstallFailureDeferred ==
    [][/\ (/\ charm = "slurmctld"
           /\ ~ctld_stored.slurm_installed
           /\ ctld_last'.event.name = "install" /\ ctld_last'.leader
           /\ \E i \in DOMAIN ctld_last'.ops :
                    i <= Len(InstallCmds) /\ ~ctld_last'.ops[i].ok)
            => /\ ctld_last'.raised = "none"
               /\ ctld_last'.deferred
               /\ Event("install", "") \in ctld_deferred'
               /\ ~ctld_stored'.slurm_installed
               /\ ctld_status' = FailedToInstall("slurmctld")
       /\ (/\ charm # "slurmctld"
           /\ ~SatInstalled(sat_stored)
           /\ sat_last'.event = "install"
           /\ SomeOpFailed(sat_last'.ops))
            => /\ sat_last'.raised = "none"
               /\ sat_last'.deferred
               /\ SatEvent("install", <<>>) \in sat_deferred'
               /\ ~SatInstalled(sat_stored')
               /\ sat_status' = FailedToInstall(charm)
      ]_vars

\* the parameters of the accounting block
AccountingKeys ==
    {<<"AccountingStorageHost">>, <<"AccountingStorageType">>, <<"AccountingStoragePass">>,
     <<"AccountingStoragePort">>}

\* C11: slurmdbd-available records the host of its event and
\* slurmdbd-unavailable resets it to empty; the document written by a
\* completed pass holds the accounting parameters, with the recorded host,
\* exactly when a host is recorded, and none of them otherwise.
C11_AccountingIffDatabase ==
    /\ ctld_last.event.name = "slurmdbd_available"
            => ctld_stored.slurmdbd_host = ctld_last.event.node
    /\ ctld_last.event.name = "slurmdbd_unavailable" => ctld_stored.slurmdbd_host = ""
    /\ PassCompleted =>
        LET doc == ctld_sys.slurm_conf[1]
            host == ctld_stored.slurmdbd_host
        IN IF host # ""
           THEN /\ AccountingKeys \subseteq DOMAIN doc
                /\ doc[<<"AccountingStorageHost">>] = <<host>>
                /\ doc[<<"AccountingStorageType">>] = <<"accounting_storage/slurmdbd">>
                /\ doc[<<"AccountingStoragePass">>] = <<"/var/run/munge/munge.socket.2">>
                /\ doc[<<"AccountingStoragePort">>] = <<"6819">>
           ELSE AccountingKeys \cap DOMAIN doc = {}

\* a second database host arrived and the pass wrote it
C11_Witness ==
    /\ PassCompleted
    /\ ctld_last.event = Event("slurmdbd_available", "slurmdbd-2")
    /\ ctld_sys.slurm_conf[1][<<"AccountingStorageHost">>] = <<"slurmdbd-2">>
    /\ ctld_sys.cgroup_conf # <<>>

\* the lines of an override text that are neither comments nor blank
KeptLines(text) ==
    {i \in DOMAIN text : text[i] # <<>> /\ text[i][1] # "#"
                         /\ \E j \in DOMAIN text[i] : text[i][j] # " "}

\* the charm's own document for the same inputs, without any override
DocWithoutOverrides ==
    _assemble_slurm_conf([CtldStoredDefault EXCEPT !.slurmdbd_host = assembled.slurmdbd_host],
                         [ConfigDefault EXCEPT !.slurm_conf_parameters = NoneValue],
                         assembled.facts, container, assembled.order).doc[1]

\* C12: each override line is split at its first "=" only: the text before
\* it is the key and everything after it, further "=" included, is the value
\* the assembled document holds for that key (the last line of a key
\* counting); lines starting with "#" and blank lines add nothing to the
\* document.
C12_SplitAtFirstEquals ==
    (assembled.exc = "none" /\ assembled.text # NoneValue) =>
        LET text == assembled.text
            doc == assembled.doc[1]
            eq(i) == CHOOSE j \in DOMAIN text[i] :
                        text[i][j] = "=" /\ \A k \in 1..(j - 1) : text[i][k] # "="
            key(i) == SubSeq(text[i], 1, eq(i) - 1)
            value(i) == SubSeq(text[i], eq(i) + 1, Len(text[i]))
        IN /\ \A i \in KeptLines(text) :
                (\A l \in KeptLines(text) : l > i => key(l) # key(i))
                    => (key(i) \in DOMAIN doc /\ doc[key(i)] = value(i))
           /\ DOMAIN doc = DOMAIN DocWithoutOverrides \cup {key(i) : i \in KeptLines(text)}
           /\ \A k \in DOMAIN DocWithoutOverrides \ {key(i) : i \in KeptLines(text)} :
                doc[k] = DocWithoutOverrides[k]

\* the text of a comment, the line JobAcctGatherFrequency=task=30,network=40,
\* a blank and an empty line was assembled
C12_Witness ==
    /\ assembled.exc = "none"
    /\ assembled.text = <<CommentLine, EqText, BlankLine, <<>> >>
    /\ assembled.doc[1][<<"JobAcctGatherFrequency">>]
            = <<"task", "=", "30", ",", "network", "=", "40">>
    /\ <<"#", "SlurmdPort">> \notin DOMAIN assembled.doc[1]

\* C13: a line without "=" in the controller's slurm-conf-parameters or
\* cgroup-parameters raises out of no controller handler that assembles the
\* configuration: no handler ends with the IndexError of such a line
\* escaping, so that the charm can block with a message instead.
C13_MalformedLineDoesNotRaise == ctld_last.raised # "IndexError"

\* a partition-config value with an item without "=" or with a key that is
\* no partition option
BadPartitionConfig(pc) ==
    /\ pc # NoneValue
    /\ \/ \E i \in DOMAIN pc[1] : "=" \notin SeqToSet(pc[1][i])
       \/ \E i \in DOMAIN pc[1] : SplitKey(pc[1][i]) \notin PartitionOptionKeys

\* C14: a slurmd config-changed whose partition-config is malformed or names
\* a key outside the partition options leaves user_supplied_partition_parameters
\* as it was, sends nothing to slurmctld, does not defer the event and lets
\* no exception escape.
C14_BadPartitionConfigRejected ==
    [][(/\ charm = "slurmd"
        /\ sat_last'.event = "config_changed"
        /\ BadPartitionConfig(sat_last'.input.partition_config))
            => /\ sat_stored'.user_supplied_partition_parameters
                    = sat_stored.user_supplied_partition_parameters
               /\ sat_sys'.partition = sat_sys.partition
               /\ \A i \in DOMAIN sat_last'.ops :
                    sat_last'.ops[i].cmd \notin {"slurmctld.set_partition", "slurmctld.set_node"}
               /\ ~sat_last'.deferred
               /\ sat_deferred' = sat_deferred
               /\ sat_last'.raised = "none"
      ]_vars

\* the leader unit, joined to slurmctld and holding accepted partition
\* parameters, handled a config-changed with a malformed partition-config
C14_Witness ==
    /\ charm = "slurmd"
    /\ sat_joined
    /\ sat_stored.user_supplied_partition_parameters # <<>>
    /\ sat_last.event = "config_changed"
    /\ sat_last.input.leader
    /\ sat_last.input.partition_config = Some(<< <<"MaxTime">> >>)

\* the charm's SlurmctldParameters with the user's k=v items merged in
MergedSlurmctldParameters(value) ==
    LET items == CommaItems(value)
        keys == {SplitKey(items[i]) : i \in DOMAIN items}
        last(k) == CHOOSE i \in DOMAIN items :
                      SplitKey(items[i]) = k
                      /\ \A j \in DOMAIN items : SplitKey(items[j]) = k => j <= i
    IN [k \in keys |-> SplitValue(items[last(k)])]
       @@ (<<"enable_configless">> :> <<"True">>)

\* C15: when the user overrides hold SlurmctldParameters, the assembled
\* document's SlurmctldParameters is the charm's map (enable_configless) with
\* the user's comma-separated k=v items merged in key by key.
C15_SlurmctldParametersMerged ==
    (/\ assembled.exc # "never"
     /\ assembled.text # NoneValue
     /\ ~UserParseError(assembled.text)
     /\ <<"SlurmctldParameters">> \in DOMAIN _get_user_supplied_parameters(assembled.text))
        => /\ assembled.exc = "none"
           /\ assembled.doc[1][<<"SlurmctldParameters">>]
                = MergedSlurmctldParameters(
                    _get_user_supplied_parameters(assembled.text)[<<"SlurmctldParameters">>])

\* the facts of the controller have been received and installed
FactsReceived ==
    IF charm = "slurmrestd"
    THEN sat_sys.munge_key # "" /\ sat_sys.slurm_conf # NoneValue
    ELSE sat_stored.slurmctld_available = TRUE

\* C17: in every role update-status raises no error, changes no durable state
\* and performs no service or file operation; it sets the unit status to that
\* of the first unmet precondition, in the order not installed (Blocked:
\* failed to install), relation not joined (Blocked: Need relations),
\* controller facts not received (Waiting), and leaves an already-active
\* status in place when all preconditions hold.
C17_UpdateStatusFrame ==
    [][/\ (charm = "slurmctld" /\ ctld_last'.event.name = "update_status")
            => /\ ctld_last'.raised = "none"
               /\ ctld_last'.ops = <<>>
               /\ ctld_stored' = ctld_stored
               /\ ctld_sys' = ctld_sys
               /\ ctld_deferred' = ctld_deferred
               /\ ctld_stored.slurm_installed # TRUE
                    => ctld_status' = FailedToInstall("slurmctld")
               /\ (ctld_stored.slurm_installed = TRUE /\ ctld_status.name = "active")
                    => ctld_status' = ctld_status
       /\ (charm # "slurmctld" /\ sat_last'.event = "update_status")
            => /\ sat_last'.raised = "none"
               /\ sat_last'.ops = <<>>
               /\ sat_stored' = sat_stored
               /\ sat_sys' = sat_sys
               /\ sat_deferred' = sat_deferred
               /\ ~SatInstalled(sat_stored) => sat_status' = FailedToInstall(charm)
               /\ (SatInstalled(sat_stored) /\ ~sat_joined)
                    => sat_status' = BlockedStatus("Need relations: slurmctld")
               /\ (SatInstalled(sat_stored) /\ sat_joined /\ ~FactsReceived)
                    => sat_status' = WaitingStatus("Waiting on: slurmctld")
               /\ (/\ SatInstalled(sat_stored) /\ sat_joined /\ FactsReceived
                   /\ sat_status.name = "active")
                    => sat_status' = sat_status
      ]_vars

\* the one command of the last action, when exactly one was run
OneScontrolUpdate(ops, nodename, rest) ==
    /\ Len(ops) = 1
    /\ ops[1].cmd = "subprocess.check_output"
    /\ ops[1].args = << <<"scontrol">>, <<"update">>, <<"nodename=">> \o nodename >> \o rest

ActionFailedWithOutput(last) ==
    /\ ~last.ops[1].ok => (last.action.failed /\ last.action.message.output = CommandOutput)
    /\ last.ops[1].ok => ~last.action.failed

\* C18: the drain and resume actions each perform exactly one scontrol update
\* invocation for the given node list (state=drain with the reason,
\* respectively state=idle); a failed invocation marks the action failed with
\* the command's output attached and no exception escapes; in either outcome
\* durable state and the unit's status are unchanged.
C18_DrainResumeActions ==
    [][/\ ctld_last'.event.name = "drain_nodes"
            => /\ ctld_last'.raised = "none"
               /\ OneScontrolUpdate(ctld_last'.ops, ctld_last'.event.node.nodename,
                                    << <<"state=drain">>,
                                       <<"reason=">> \o ctld_last'.event.node.reason >>)
               /\ ActionFailedWithOutput(ctld_last')
               /\ ctld_stored' = ctld_stored
               /\ ctld_status' = ctld_status
       /\ ctld_last'.event.name = "resume_nodes"
            => /\ ctld_last'.raised = "none"
               /\ OneScontrolUpdate(ctld_last'.ops, ctld_last'.event.node.nodename,
                                    << <<"state=idle">> >>)
               /\ ActionFailedWithOutput(ctld_last')
               /\ ctld_stored' = ctld_stored
               /\ ctld_status' = ctld_status
      ]_vars

\* every item has the form KEY=VALUE, with an allowed key and a value
NodeConfigValid(items) ==
    \A i \in DOMAIN items :
        /\ FirstEq(items[i], 1) # 0
        /\ SplitKey(items[i]) \in NodeOptionKeys
        /\ SplitValue(items[i]) # <<>>

Republished(ops) == \E i \in DOMAIN ops : ops[i].cmd = "slurmctld.set_node"

\* C19: the node-config action with no 'parameters' returns the current node
\* parameters and changes nothing; with 'parameters' it stores them and
\* republishes the node only if every item has the form KEY=VALUE, every key
\* is an allowed node option and every value is non-empty; otherwise the
\* stored node parameters are unchanged, nothing is republished, and the
\* result carries the current node parameters with accepted = False.
C19_NodeConfigAction ==
    [][(sat_last'.event = "node_config" /\ sat_joined' = sat_joined)
        => LET params == sat_last'.input
               before == sat_stored.user_supplied_node_parameters
               after == sat_stored'.user_supplied_node_parameters
           IN /\ sat_last'.raised = "none"
              /\ sat_last'.results # <<>>
              /\ \A k \in DOMAIN after :
                    /\ k \in DOMAIN sat_last'.results.node_parameters
                    /\ sat_last'.results.node_parameters[k] = after[k]
              /\ params = NoneValue
                    => /\ sat_stored' = sat_stored
                       /\ sat_sys' = sat_sys
                       /\ sat_last'.ops = <<>>
                       /\ sat_last'.results.accepted = NoneValue
              /\ (params # NoneValue /\ NodeConfigValid(params[1]))
                    => /\ after = ItemsDict(params[1])
                       /\ sat_last'.results.accepted = Some(TRUE)
                       /\ Republished(sat_last'.ops) <=> after # before
              /\ (params # NoneValue /\ ~NodeConfigValid(params[1]))
                    => /\ sat_stored' = sat_stored
                       /\ sat_sys' = sat_sys
                       /\ ~Republished(sat_last'.ops)
                       /\ sat_last'.results.accepted = Some(FALSE)
      ]_vars

\* what the node-config action does before it asks for the node: without
\* 'parameters', or with parameters that are not valid, nothing is stored and
\* nothing is republished; valid parameters are stored, and republished when
\* they differ from the stored ones
NodeConfigStoresOnlyValid ==
    [][(sat_last'.event = "node_config" /\ sat_joined' = sat_joined)
        => LET params == sat_last'.input
               before == sat_stored.user_supplied_node_parameters
               after == sat_stored'.user_supplied_node_parameters
           IN /\ (params = NoneValue \/ ~NodeConfigValid(params[1]))
                    => /\ sat_stored' = sat_stored
                       /\ sat_sys' = sat_sys
                       /\ sat_last'.ops = <<>>
              /\ (params # NoneValue /\ NodeConfigValid(params[1]))
                    => /\ after = ItemsDict(params[1])
                       /\ Republished(sat_last'.ops) <=> after # before
      ]_vars

\* the action never gets as far as its results: the request for the node
\* raises (the error of `slurmd -C`, or AttributeError) and no result is set
NodeConfigAlwaysRaises ==
    [][(sat_last'.event = "node_config" /\ sat_joined' = sat_joined)
        => /\ sat_last'.raised \in {"AttributeError", "CalledProcessError",
                                    "FileNotFoundError"}
           /\ sat_last'.results = <<>>
      ]_vars

\* the pieces of a string joined into the string
RECURSIVE Concat(_)
Concat(pieces) == IF pieces = <<>> THEN "" ELSE Head(pieces) \o Concat(Tail(pieces))

\* position i starts, respectively ends, a maximal run of consecutive integers
RunStart(nums, i) == i = 1 \/ nums[i - 1] + 1 # nums[i]
RunEnd(nums, i) == i = Len(nums) \/ nums[i] + 1 # nums[i + 1]

\* the items the claim describes, from position i on, each followed by ","
RECURSIVE ItemsFrom(_, _)
ItemsFrom(nums, i) ==
    IF i > Len(nums) THEN <<>>
    ELSE LET e == CHOOSE j \in i..Len(nums) :
                     RunEnd(nums, j) /\ \A k \in i..(j - 1) : ~RunEnd(nums, k)
         IN (IF e = i THEN <<ToString(nums[i])>>
             ELSE <<ToString(nums[i]), "-", ToString(nums[e])>>)
            \o (IF e = Len(nums) THEN <<>> ELSE <<",">>)
            \o ItemsFrom(nums, e + 1)

\* the integers a returned string denotes: a piece that is a number stands
\* for itself, and a "-" for everything between its neighbours
NumberOf(piece) == CHOOSE n \in 0..(MaxIndex + 18) : ToString(n) = piece
IsNumber(piece) == \E n \in 0..(MaxIndex + 18) : ToString(n) = piece
Denoted(out) ==
    UNION {IF IsNumber(out[i]) THEN {NumberOf(out[i])}
           ELSE IF out[i] = "-" THEN NumberOf(out[i - 1])..NumberOf(out[i + 1])
           ELSE {} : i \in DOMAIN out}

\* C20: for every strictly ascending list of distinct device indices,
\* _ranges_and_strides returns '[' + comma-separated items + ']' in which each
\* maximal run of two or more consecutive integers is written 'first-last'
\* and each isolated index alone, in ascending order, so that the string
\* denotes exactly the input set; the docstring's example gives
\* '[0-6,8-10,12,14-16,18]'.
C20_RangesAndStrides ==
    sat_last.event = "ranges_and_strides" =>
        LET nums == sat_last.input
            out == sat_last.results
        IN /\ out = <<"[">> \o ItemsFrom(nums, 1) \o <<"]">>
           /\ Denoted(out) = SeqToSet(nums)
           /\ nums = ExampleInput => Concat(out) = "[0-6,8-10,12,14-16,18]"

\* the example of the docstring was formatted
C20_Witness ==
    /\ sat_last.event = "ranges_and_strides"
    /\ sat_last.input = ExampleInput
    /\ Len(sat_last.results) = 17

\* the first endpoint of a list, by the claim's words: the text before the
\* first comma, without the blanks around it
FirstEndpoint(text) == strip(CommaItems(text)[1])

\* C21: database-created uses only the first endpoint of the comma-separated
\* list, trimmed: a file:// endpoint sets the MySQL unix-socket path and
\* stores no StorageHost/StoragePort, a host:port endpoint removes the
\* unix-socket setting and stores StorageHost and StoragePort (IPv6 brackets
\* stripped), never both; an empty or blank list raises ValueError and sets
\* BlockedStatus 'No database endpoints provided' without storing anything.
C21_FirstEndpointOnly ==
    [][sat_last'.event = "database_created"
        => LET text == sat_last'.input.endpoints
               blank == text = NoneValue \/ \A i \in DOMAIN text[1] : text[1][i] \in {" ", ","}
               ep == FirstEndpoint(text[1])
               info == sat_stored'.db_info
           IN /\ blank => /\ sat_last'.raised = "ValueError"
                          /\ sat_status' = BlockedStatus("No database endpoints provided")
                          /\ sat_stored' = sat_stored
                          /\ sat_sys' = sat_sys
              /\ (~blank /\ Head(ep) = "file://")
                    => /\ sat_last'.raised = "none"
                       /\ sat_sys'.mysql_unix_port = Some(Tail(ep))
                       /\ DOMAIN info = {<<"StorageUser">>, <<"StoragePass">>, <<"StorageLoc">>}
              /\ (~blank /\ Head(ep) # "file://")
                    => /\ sat_last'.raised = "none"
                       /\ sat_sys'.mysql_unix_port = NoneValue
                       /\ <<"StorageHost">> \in DOMAIN info /\ <<"StoragePort">> \in DOMAIN info
                       /\ info[<<"StoragePort">>] = <<ep[Len(ep)]>>
                       /\ info[<<"StorageHost">>] \o <<":">> \o info[<<"StoragePort">>] = ep
                          \/ <<"[">> \o info[<<"StorageHost">>] \o <<"]", ":">>
                                \o info[<<"StoragePort">>] = ep
                       /\ Head(info[<<"StorageHost">>]) # "["
              /\ ~(/\ sat_sys'.mysql_unix_port # NoneValue
                   /\ <<"StorageHost">> \in DOMAIN info)
      ]_vars

\* a TCP endpoint list replaced a socket endpoint: the socket path is gone
\* and the first host and port are stored
C21_Witness ==
    /\ sat_last.event = "database_created"
    /\ sat_last.input.endpoints = Some(TcpEndpoints)
    /\ sat_sys.mysql_unix_port = NoneValue
    /\ sat_stored.db_info[<<"StorageHost">>] = <<"10.2.5.20">>
    /\ sat_stored.db_info[<<"StoragePort">>] = <<"1234">>

\* slurmctld_available is true and _check_status is true
UnitReady ==
    /\ sat_stored.slurmctld_available = TRUE
    /\ IF charm = "sackd" THEN SackdReady(SatContext) ELSE SlurmdReady(SatContext)

\* C22: under fair redelivery of deferred events, when the installation of a
\* login or compute unit succeeds in the end and the controller has published
\* the complete cluster_info, the unit eventually has slurmctld_available =
\* true with _check_status true; and after a slurmctld-unavailable, a new
\* relation and a new publication it gets there again.
C22_Convergence ==
    /\ ~SatInstalled(sat_stored) ~> UnitReady
    /\ (sat_last.event = "slurmctld_unavailable") ~> UnitReady

\* the unit is ready by a slurmctld_available that was deferred while the
\* unit was not installed and was delivered again afterwards
C22_Witness ==
    /\ UnitReady
    /\ sat_last.event = "slurmctld_available"
    /\ sat_sys.service \in {"enable", "restart"}

\* the fields a login or compute unit expects in cluster_info
ExpectedFields ==
    IF charm = "sackd" THEN {"slurmctld_host", "auth_key"}
    ELSE {"slurmctld_host", "munge_key", "nhc_params"}

\* the last dispatch ran the slurmctld_available handler of the charm on the
\* fields the record keeps
AvailableHandlerRan(last) ==
    /\ last.event \in {"relation_changed", "slurmctld_available"}
    /\ last.received # <<>>
    /\ last.received[1].kind = "ok"

AllFieldsPresent(fields) == \A f \in ExpectedFields : fields[f] # NoneValue

KeyInstalled(ops) == OpsNamed(ops, "munge.key.set") # <<>>

ServiceTouched(ops) ==
    \E i \in DOMAIN ops :
        ops[i].cmd \in {"munge.service.restart", "service.enable", "service.restart"}

\* C23: in the login and compute charms a run of the slurmctld_available
\* handler sets slurmctld_available, installs the key or restarts or enables
\* a service only when every expected field of the event is present; when a
\* field is null the run installs no key, touches no service and does not
\* set the flag.  The flag is set by no other handler.
C23_AllFieldsOrNothing ==
    [][/\ (/\ charm \in {"sackd", "slurmd"}
           /\ AvailableHandlerRan(sat_last')
           /\ ~AllFieldsPresent(sat_last'.received[1].fields))
            => /\ ~KeyInstalled(sat_last'.ops)
               /\ ~ServiceTouched(sat_last'.ops)
               /\ sat_stored'.slurmctld_available = sat_stored.slurmctld_available
       /\ (/\ charm \in {"sackd", "slurmd"}
           /\ sat_stored'.slurmctld_available = TRUE
           /\ sat_stored.slurmctld_available # TRUE)
            => AvailableHandlerRan(sat_last')]_vars

\* C24: when a slurmctld_available event reaches a sackd, slurmd or
\* slurmrestd unit whose installed flag is not true, the handler defers the
\* event, issues no operation and leaves the stored state, the key file, the
\* configuration files and the services as they were.
C24_NotInstalledDefers ==
    [][(/\ charm \in {"sackd", "slurmd", "slurmrestd"}
        /\ ~SatInstalled(sat_stored)
        /\ AvailableHandlerRan(sat_last'))
        => /\ sat_last'.deferred
           /\ sat_last'.raised = "none"
           /\ sat_last'.ops = <<>>
           /\ SatEvent("slurmctld_available", sat_last'.received[1].fields) \in sat_deferred'
           /\ sat_stored' = sat_stored
           /\ sat_sys' = sat_sys]_vars

\* a unit that is not installed has deferred a complete slurmctld_available
C24_Witness ==
    /\ charm \in {"sackd", "slurmd", "slurmrestd"}
    /\ ~SatInstalled(sat_stored)
    /\ AvailableHandlerRan(sat_last)
    /\ \A f \in DOMAIN sat_last.received[1].fields : sat_last.received[1].fields[f] # NoneValue
    /\ sat_last.deferred
    /\ Pending("slurmctld_available") # {}

\* the stored fields a role fills from the controller's cluster_info
ControllerFields ==
    CASE charm = "sackd" -> {"auth_key", "slurmctld_host"}
      [] charm = "slurmd" -> {"munge_key", "slurmctld_host", "nhc_params"}
      [] OTHER -> {}

\* the body of C25 for the roles in R; _check_status has returned false
\* exactly when it has left a blocked or waiting status
UnavailableResets(R) ==
    (/\ charm \in R
     /\ sat_last'.event = "slurmctld_unavailable"
     /\ sat_last'.raised = "none")
     => /\ \A f \in ControllerFields : sat_stored'[f] = ""
        /\ charm \in {"sackd", "slurmd"} => sat_stored'.slurmctld_available = FALSE
        /\ \E i \in DOMAIN sat_last'.ops :
                sat_last'.ops[i].cmd = "service.disable" /\ sat_last'.ops[i].ok
        /\ sat_sys'.service = "disable"
        /\ sat_status'.name \in {"blocked", "waiting"}

\* C25: slurmctld_unavailable empties every stored field that was filled
\* from the controller, sets slurmctld_available to false, disables the
\* service of the role, and _check_status returns false afterwards.
C25_UnavailableResets == [][UnavailableResets({"sackd", "slurmd", "slurmrestd"})]_vars

\* the relation-changed notification is kept for redelivery
NotificationDeferred(deferred) == SatEvent("relation_changed", <<>>) \in deferred

\* C26: on relation-changed the interface defers the notification exactly
\* when the application's data bucket exists and cluster_info is absent or
\* empty; without an application on the event or without a data bucket it
\* neither defers nor emits; in these three cases no slurmctld_available is
\* emitted or kept and nothing of the unit changes.
C26_RelationChangedDefers ==
    [][(/\ charm \in {"sackd", "slurmd", "slurmrestd"}
        /\ sat_last'.event = "relation_changed"
        /\ sat_last'.raised = "none")
        => LET kind == sat_last'.received[1].kind
           IN /\ NotificationDeferred(sat_deferred') <=> kind = "no_cluster_info"
              /\ kind \in {"no_app", "no_data"} => ~sat_last'.deferred
              /\ kind \in {"no_app", "no_data", "no_cluster_info"}
                    => /\ sat_last'.ops = <<>>
                       /\ sat_stored' = sat_stored
                       /\ sat_sys' = sat_sys
                       /\ sat_status' = sat_status
                       /\ sat_deferred' \ {SatEvent("relation_changed", <<>>)}
                            = sat_deferred \ {SatEvent("relation_changed", <<>>)}]_vars

\* a relation-changed found the data bucket without cluster_info and is kept
C26_Witness ==
    /\ sat_last.event = "relation_changed"
    /\ sat_last.received[1].kind = "no_cluster_info"
    /\ sat_last.deferred
    /\ NotificationDeferred(sat_deferred)

\* C27: when cluster_info is present and is not valid JSON,
\* _on_relation_changed raises the decode error to its caller; it neither
\* defers the notification nor emits slurmctld_available, and the stored
\* state of the unit is unchanged.
C27_BadJsonRaises ==
    [][(/\ charm \in {"sackd", "slurmd", "slurmrestd"}
        /\ sat_last'.event = "relation_changed"
        /\ sat_last'.received[1].kind = "bad_json")
        => /\ sat_last'.raised = "JSONDecodeError"
           /\ ~sat_last'.deferred
           /\ sat_last'.ops = <<>>
           /\ sat_deferred' = sat_deferred
           /\ sat_stored' = sat_stored
           /\ sat_sys' = sat_sys]_vars

\* the decode error has escaped from a relation-changed of an installed unit
C27_Witness ==
    /\ sat_last.event = "relation_changed"
    /\ sat_last.received[1].kind = "bad_json"
    /\ sat_last.raised = "JSONDecodeError"
    /\ SatInstalled(sat_stored)

\* the role's handler of slurmctld_unavailable, run without a failure
SlurmctldUnavailable(c) ==
    CASE charm = "sackd" -> SackdCharm_on_slurmctld_unavailable(c, "none")
      [] charm = "slurmd" -> SlurmdCharm_on_slurmctld_unavailable(c, "none")
      [] OTHER -> SlurmrestdCharm_on_slurmctld_unavailable(c, "none")

\* C28: every relation-broken of the slurmctld relation runs the handler of
\* slurmctld_unavailable, whatever the state of the unit, and handling the
\* event once more leaves the stored state and the state of the services as
\* the first handling left them.
C28_RelationBrokenIdempotent ==
    [][(/\ charm \in {"sackd", "slurmd", "slurmrestd"}
        /\ sat_last'.event = "slurmctld_unavailable"
        /\ sat_last'.raised = "none")
        => /\ \E i \in DOMAIN sat_last'.ops : sat_last'.ops[i].cmd = "service.disable"
           /\ sat_sys'.service = "disable"
           /\ \A j \in BOOLEAN :
                LET once == [stored |-> sat_stored', status |-> sat_status', sys |-> sat_sys',
                             joined |-> j, ops |-> <<>>, deferred |-> FALSE,
                             raised |-> "none", results |-> <<>>, received |-> <<>>]
                    twice == SlurmctldUnavailable(once)
                IN /\ twice.stored = sat_stored'
                   /\ twice.sys = sat_sys'
                   /\ ~twice.deferred]_vars

\* the relation of a unit that holds the controller's data was broken
C28_Witness ==
    /\ sat_last.event = "slurmctld_unavailable"
    /\ sat_last.raised = "none"
    /\ sat_sys.service = "disable"
    /\ sat_sys.munge_key # ""
    /\ ~sat_joined

\* the operations of a reconfiguration pass
PassCmds ==
    {"service.disable", "config.dump", "cgroup.dump", "service.enable",
     "scontrol.reconfigure", "scontrol.update", "slurmrestd.set_slurm_config"}

\* the pass of the last dispatch ended where the document is assembled
AssemblyFailed(last) ==
    last.pass = "raised" /\ \A i \in DOMAIN last.ops : last.ops[i].cmd \notin PassCmds

\* the body of C29 for the passes that P selects
PassAbortsDeferred(P) ==
    (/\ charm = "slurmctld"
     /\ ctld_last'.leader
     /\ P)
     => /\ ctld_last'.deferred
        /\ ctld_last'.raised = "none"
        /\ ctld_last'.event \in ctld_deferred'
        /\ \A i \in DOMAIN ctld_last'.ops : ctld_last'.ops[i].cmd \notin PassCmds
        /\ ctld_sys'.slurm_conf = ctld_sys.slurm_conf
        /\ ctld_sys'.cgroup_conf = ctld_sys.cgroup_conf
        /\ ctld_stored'.new_nodes = ctld_stored.new_nodes
        /\ rest_data' = rest_data
        /\ resumed' = resumed

\* C29: when the leader is not ready, or no document can be assembled, the
\* reconfiguration pass defers its event and has no effect: the service is
\* not disabled, no file is written, no reconfigure and no resume is issued,
\* the recorded new nodes stay and nothing is pushed to slurmrestd.
C29_PassAbortsDeferred ==
    [][PassAbortsDeferred(ctld_last'.pass = "not_ready" \/ AssemblyFailed(ctld_last'))]_vars

\* the operations of the pass among those of a dispatch, in their order
PassOps(last) == SelectSeq(last.ops, LAMBDA op : op.cmd \in PassCmds)

\* the steps of a pass in the order of the claim
ExpectedPass(transitioning) ==
    <<"service.disable", "config.dump">>
    \o (IF container THEN <<>> ELSE <<"cgroup.dump">>)
    \o <<"service.enable", "scontrol.reconfigure">>
    \o (IF transitioning # <<>> THEN <<"scontrol.update">> ELSE <<>>)
    \o (IF rest_joined THEN <<"slurmrestd.set_slurm_config">> ELSE <<>>)

\* a step of a handler: the unit's surroundings are as they were
CtldDispatch == UNCHANGED <<leader, container, config, facts, gres, rest_joined>>

\* C30: a reconfiguration pass disables the service, writes slurm.conf and,
\* outside a container, cgroup.conf, enables the service, issues scontrol
\* reconfigure, resumes the transitioning nodes and records the new nodes,
\* and pushes to slurmrestd, in this order and stopping at the first step
\* that fails; no reconfigure is issued while the service is disabled or
\* before the document is written.
C30_PassOrder ==
    [][(/\ charm = "slurmctld"
        /\ CtldDispatch
        /\ ctld_last'.pass \in {"completed", "raised"})
        => LET ops == PassOps(ctld_last')
               exp == ExpectedPass(ctld_last'.transitioning)
           IN /\ Len(ops) <= Len(exp)
              /\ \A i \in DOMAIN ops : ops[i].cmd = exp[i] /\ (i < Len(ops) => ops[i].ok)
              /\ ctld_last'.pass = "completed"
                    => Len(ops) = Len(exp) /\ \A i \in DOMAIN ops : ops[i].ok
              /\ \A i \in DOMAIN ops :
                    ops[i].cmd = "scontrol.reconfigure"
                    => /\ \E j \in 1..(i - 1) : ops[j].cmd = "config.dump" /\ ops[j].ok
                       /\ \E k \in 1..(i - 1) :
                            /\ ops[k].cmd = "service.enable" /\ ops[k].ok
                            /\ \A m \in (k + 1)..(i - 1) : ops[m].cmd # "service.disable"
              /\ \A i \in DOMAIN ops :
                    (ops[i].cmd = "scontrol.update" /\ ops[i].ok)
                    => ctld_stored'.new_nodes = ctld_last'.new]_vars

\* a pass outside a container has run all seven steps: a node was resumed
\* and the document went to slurmrestd
C30_Witness ==
    /\ ctld_last.pass = "completed"
    /\ ~container /\ rest_joined
    /\ ctld_last.transitioning # <<>>
    /\ Len(PassOps(ctld_last)) = 7

\* the external control operations of the pass and of the satellites'
\* handler of slurmctld_available
ControlCmds ==
    {"service.disable", "service.enable", "service.restart", "munge.service.restart",
     "config.dump", "cgroup.dump", "scontrol.reconfigure", "scontrol.update"}

ControlOpFailed(ops) == \E i \in DOMAIN ops : ops[i].cmd \in ControlCmds /\ ~ops[i].ok

\* C31: when an external control operation fails in the controller's
\* reconfiguration pass or in the slurmctld_available handler of a compute
\* or login unit, the error does not escape from the handler and is not
\* swallowed: the triggering event is deferred.
C31_ControlFailureDeferred ==
    [][/\ (/\ charm = "slurmctld"
           /\ CtldDispatch
           /\ ctld_last'.pass \in {"completed", "raised"}
           /\ ControlOpFailed(PassOps(ctld_last')))
            => /\ ctld_last'.raised = "none"
               /\ ctld_last'.deferred
               /\ ctld_last'.event \in ctld_deferred'
       /\ (/\ charm \in {"sackd", "slurmd"}
           /\ AvailableHandlerRan(sat_last')
           /\ ControlOpFailed(sat_last'.ops))
            => /\ sat_last'.raised = "none"
               /\ sat_last'.deferred]_vars

Pushed(ops) == OpsNamed(ops, "slurmrestd.set_slurm_config") # <<>>

\* C32: every reconfiguration pass that completes while the slurmrestd
\* relation is joined pushes the document it has assembled and written to
\* the relation, also when the relation holds that document already; after
\* the pass the relation holds the document of the pass.
C32_PushEveryPass ==
    [][(/\ charm = "slurmctld"
        /\ CtldDispatch
        /\ ctld_last'.pass = "completed"
        /\ rest_joined)
        => /\ Pushed(ctld_last'.ops)
           /\ ctld_sys'.slurm_conf # <<>>
           /\ rest_data' = ctld_sys'.slurm_conf]_vars

\* a pass that resumed a node has pushed its document to the relation
C32_Witness ==
    /\ ctld_last.pass = "completed"
    /\ rest_joined
    /\ Pushed(ctld_last.ops)
    /\ rest_data = ctld_sys.slurm_conf
    /\ ctld_last.transitioning # <<>>

\* C33: on slurmrestd_available the leader pushes the current slurm.conf to
\* the slurmrestd relation when _check_status is true and defers the event,
\* pushing nothing, when it is false; a unit that is not the leader neither
\* pushes nor defers.
C33_SlurmrestdAvailable ==
    [][(/\ charm = "slurmctld"
        /\ CtldDispatch
        /\ ctld_last'.event.name = "slurmrestd_available")
        => /\ ctld_last'.raised = "none"
           /\ (leader /\ ctld_stored.slurm_installed = TRUE)
                => /\ Pushed(ctld_last'.ops)
                   /\ rest_data' = ctld_sys.slurm_conf
                   /\ ~ctld_last'.deferred
                   /\ ctld_last'.event \notin ctld_deferred'
           /\ (leader /\ ctld_stored.slurm_installed # TRUE)
                => /\ ctld_last'.deferred
                   /\ ctld_last'.event \in ctld_deferred'
                   /\ ~Pushed(ctld_last'.ops)
                   /\ rest_data' = rest_data
           /\ ~leader
                => /\ ~ctld_last'.deferred
                   /\ ctld_last'.event \notin ctld_deferred'
                   /\ ~Pushed(ctld_last'.ops)
                   /\ rest_data' = rest_data]_vars

\* what the handler does: an installed leader whose slurm.conf has been
\* written pushes it; one whose slurm.conf has not been written raises out of
\* config.load, pushing and deferring nothing; the other cases are as in C33
SlurmrestdAvailableNeedsConf ==
    [][(/\ charm = "slurmctld"
        /\ CtldDispatch
        /\ ctld_last'.event.name = "slurmrestd_available")
        => /\ (leader /\ ctld_stored.slurm_installed = TRUE
                    /\ ctld_sys.slurm_conf # NoneValue)
                => /\ ctld_last'.raised = "none"
                   /\ Pushed(ctld_last'.ops)
                   /\ rest_data' = ctld_sys.slurm_conf
                   /\ ~ctld_last'.deferred
                   /\ ctld_last'.event \notin ctld_deferred'
           /\ (leader /\ ctld_stored.slurm_installed = TRUE
                    /\ ctld_sys.slurm_conf = NoneValue)
                => /\ ctld_last'.raised = "FileNotFoundError"
                   /\ ~Pushed(ctld_last'.ops)
                   /\ ~ctld_last'.deferred
                   /\ rest_data' = rest_data
           /\ (leader /\ ctld_stored.slurm_installed # TRUE)
                => /\ ctld_last'.raised = "none"
                   /\ ctld_last'.deferred
                   /\ ctld_last'.event \in ctld_deferred'
                   /\ ~Pushed(ctld_last'.ops)
                   /\ rest_data' = rest_data
           /\ ~leader
                => /\ ctld_last'.raised = "none"
                   /\ ~ctld_last'.deferred
                   /\ ctld_last'.event \notin ctld_deferred'
                   /\ ~Pushed(ctld_last'.ops)
                   /\ rest_data' = rest_data]_vars

\* an option of the configuration differs from the value the unit has stored
DocumentOptionsDiffer ==
    \/ config.default_partition # ctld_stored.default_partition
    \/ config.slurm_conf_parameters # ctld_stored.user_supplied_slurm_conf_params

\* the body of C34; E tells whether options that were reset to empty are
\* left out of the statement
ConfigChangedPass(E) ==
    (/\ charm = "slurmctld"
     /\ CtldDispatch
     /\ ctld_last'.event.name = "config_changed"
     /\ E => (/\ config.default_partition = "" => ctld_stored.default_partition = ""
              /\ config.health_check_params = "" => ctld_stored.nhc_params = ""))
     => /\ Len(OpsNamed(ctld_last'.ops, "service.disable")) <= 1
        /\ ctld_last'.pass # "none" <=> DocumentOptionsDiffer
        /\ (~DocumentOptionsDiffer /\ config.health_check_params # ctld_stored.nhc_params)
            => /\ ctld_stored'.nhc_params = config.health_check_params
               /\ OpsNamed(ctld_last'.ops, "slurmd.set_nhc_params") # <<>>
               /\ ctld_last'.pass = "none"

\* C34: a config-changed dispatch on the controller runs the reconfiguration
\* pass at most once, and runs it exactly when the configured
\* default-partition or slurm-conf-parameters differs from the stored value;
\* a change of health-check-params alone is stored and sent to slurmd
\* without a pass.
C34_ConfigChangedPass == [][ConfigChangedPass(FALSE)]_vars

\* the entries of node n in a gres.conf
GresEntries(conf, n) == IF n \in DOMAIN conf THEN conf[n] ELSE <<>>

\* C35: on a ready leader slurmd_available sets the gres.conf entries of the
\* joining node to the resources in its fact and leaves the entries of the
\* other nodes; slurmd_departed replaces gres.conf by the resources of the
\* nodes that are joined; a reconfiguration pass follows in the dispatch.
C35_GresConf ==
    [][/\ (/\ charm = "slurmctld"
           /\ CtldDispatch
           /\ leader /\ ctld_stored.slurm_installed = TRUE
           /\ ctld_last'.event.name = "slurmd_available")
            => /\ GresEntries(ctld_sys'.gres_conf, ctld_last'.event.node)
                    = gres[ctld_last'.event.node]
               /\ \A n \in Nodes \ {ctld_last'.event.node} :
                    GresEntries(ctld_sys'.gres_conf, n) = GresEntries(ctld_sys.gres_conf, n)
               /\ ctld_last'.pass \in {"completed", "raised"}
       /\ (/\ charm = "slurmctld"
           /\ CtldDispatch
           /\ leader /\ ctld_stored.slurm_installed = TRUE
           /\ ctld_last'.event.name = "slurmd_departed")
            => /\ \A n \in Nodes :
                    GresEntries(ctld_sys'.gres_conf, n)
                        = IF facts[n] \in {"new", "configured"} THEN gres[n] ELSE <<>>
               /\ ctld_last'.pass \in {"completed", "raised"}]_vars

\* every field of the event equals the value the unit has stored
FieldsStored(fields, stored) == \A f \in ExpectedFields : fields[f] = Some(stored[f])

\* C36: on a login or compute unit that has handled a slurmctld_available
\* event, a second delivery of an event with the same fields (a replayed
\* deferred event or a repeated relation-changed) is handled to its end and
\* leaves the stored host, key, parameters and availability flag as the
\* first delivery left them.
C36_RedeliveryIdempotent ==
    [][(/\ charm \in {"sackd", "slurmd"}
        /\ AvailableHandlerRan(sat_last')
        /\ SatInstalled(sat_stored)
        /\ sat_stored.slurmctld_available = TRUE
        /\ FieldsStored(sat_last'.received[1].fields, sat_stored))
        => /\ \A f \in ExpectedFields : sat_stored'[f] = sat_stored[f]
           /\ sat_stored'.slurmctld_available = TRUE
           /\ ~sat_last'.deferred]_vars

\* a delivery that found its key stored already has run to its end
C36_Witness ==
    /\ charm \in {"sackd", "slurmd"}
    /\ AvailableHandlerRan(sat_last)
    /\ FieldsStored(sat_last.received[1].fields, sat_stored)
    /\ ~sat_last.deferred
    /\ sat_last.raised = "none"
    /\ ~KeyInstalled(sat_last.ops)
    /\ ServiceTouched(sat_last.ops)
    /\ sat_stored.slurmctld_available = TRUE

\* the last handler completed a pass whose document has n as a new node, and
\* n has run node-configured since
ConfiguredAfterNew(n) ==
    /\ ctld_last.pass = "completed"
    /\ IsIn(n, ctld_last.new)
    /\ facts[n] = "configured"

\* a resume command names only nodes of the recorded list, and a node enters
\* the recorded list only while its fact says it is new
ResumeNeedsRecord ==
    [][\A n \in Nodes :
        /\ resumed'[n] # resumed[n] => IsIn(n, ctld_stored.new_nodes)
        /\ (IsIn(n, ctld_stored'.new_nodes) /\ ~IsIn(n, ctld_stored.new_nodes))
                => facts[n] = "new"
        /\ facts[n] \in {"configured", "departed"} => facts'[n] \in {facts[n], "departed"}]_vars

\* a pass that completes while a recorded node is no longer new resumes it
RecordedNodeResumed ==
    [][\A n \in Nodes :
        (/\ CtldDispatch
         /\ ctld_last'.pass = "completed"
         /\ IsIn(n, ctld_stored.new_nodes)
         /\ facts[n] # "new")
            => /\ IsIn(n, ctld_last'.transitioning)
               /\ resumed'[n] = Bump(resumed[n])]_vars

\* C37: a compute node that was a new node in a document assembled by the
\* leader and has run node-configured since is named in the resume command
\* of a later completed pass.  Only a node of the recorded list is ever
\* resumed and a configured node never enters that list (ResumeNeedsRecord),
\* so the claim needs such a node, until it is resumed, to be in the
\* recorded list.
C37_ConfiguredNodeResumed ==
    \A n \in Nodes :
        (ConfiguredAfterNew(n) /\ resumed[n] = 0) => IsIn(n, ctld_stored.new_nodes)

\* the pass of the last handler has disabled the service
PassDisabledService(last) ==
    \E i \in DOMAIN last.ops : last.ops[i].cmd = "service.disable" /\ last.ops[i].ok

\* C38: at the end of a controller handler whose reconfiguration pass has
\* disabled the slurmctld service, the service is enabled again, also when
\* writing the document or a later step of the pass failed.
C38_ServiceEnabledAfterPass ==
    (/\ charm = "slurmctld"
     /\ ctld_last.pass \in {"completed", "raised"}
     /\ PassDisabledService(ctld_last))
        => ctld_sys.service = "enable"

\* a pass that runs to completion leaves the service enabled
CompletedPassEnabled ==
    (charm = "slurmctld" /\ ctld_last.pass = "completed") => ctld_sys.service = "enable"

\* C39: on a login unit the sackd service is enabled only while
\* slurmctld_available is true: the install handler disables it, only a
\* slurmctld_available handler that has set the flag enables it, and the
\* slurmctld_unavailable handler disables it, so that no handler ends with
\* the service enabled and the flag false.
C39_EnabledOnlyWhileAvailable ==
    /\ [](charm = "sackd" /\ sat_sys.service = "enable"
            => sat_stored.slurmctld_available = TRUE)
    /\ [][charm = "sackd" =>
            /\ (sat_last'.event = "install" /\ sat_stored'.sackd_installed = TRUE
                    /\ sat_stored.sackd_installed # TRUE)
                => sat_sys'.service = "disable"
            /\ (sat_sys'.service = "enable" /\ sat_sys.service # "enable")
                => /\ AvailableHandlerRan(sat_last')
                   /\ sat_last'.ops[Len(sat_last'.ops)].cmd = "service.enable"
                   /\ sat_stored'.slurmctld_available = TRUE
            /\ (sat_last'.event = "slurmctld_unavailable" /\ sat_sys.service = "enable")
                => sat_sys'.service = "disable"]_vars

\* the login unit's service is enabled while the flag is false
EnabledWhileUnavailable ==
    charm = "sackd" /\ sat_sys.service = "enable" /\ sat_stored.slurmctld_available # TRUE

\* only a slurmctld_unavailable handler whose service.disable failed leaves
\* the service enabled with the flag false
EnabledWhileUnavailableOnlyByFailure ==
    [][(EnabledWhileUnavailable' /\ ~EnabledWhileUnavailable)
        => /\ sat_last'.event = "slurmctld_unavailable"
           /\ sat_last'.raised = "SlurmOpsError"
           /\ sat_last'.ops = <<Op("service.disable", <<>>, FALSE)>>]_vars

\* the key and the host in the cluster_info the controller has published
PublishedInfo == JsonLoads(sackd_data[1])

\* C40: the controller publishes cluster_info on the login-node relation
\* only when its installation has completed, a relation-created that comes
\* earlier is deferred and publishes nothing; the published auth_key is the
\* recorded munge key and slurmctld_host the hostname; and a login unit
\* whose slurmctld_available is true has stored a non-empty auth_key, the
\* key of the controller.
C40_PublishedAfterInstall ==
    /\ [](sackd_data # NoneValue =>
            /\ ctld_stored.slurm_installed = TRUE
            /\ PublishedInfo.auth_key = Some(ctld_stored.munge_key)
            /\ ctld_stored.munge_key # ""
            /\ PublishedInfo.slurmctld_host = Some(Hostname))
    /\ [](sat_stored.slurmctld_available = TRUE =>
            /\ sat_stored.auth_key # ""
            /\ sat_stored.auth_key = ctld_stored.munge_key
            /\ sat_sys.munge_key = ctld_stored.munge_key)
    /\ [][(/\ ctld_last'.event.name = "login_relation_created"
           /\ ctld_last' # ctld_last
           /\ ctld_stored.slurm_installed # TRUE)
            => /\ ctld_last'.deferred
               /\ ctld_last'.event \in ctld_deferred'
               /\ sackd_data' = sackd_data]_vars

\* a login unit has read the cluster_info the controller holds on the
\* relation and has stored its key
C40_Witness ==
    /\ sat_stored.slurmctld_available = TRUE
    /\ sat_stored.auth_key = MungeKey
    /\ sackd_data = Some(JsonDumps([auth_key |-> MungeKey, slurmctld_host |-> Hostname]))
    /\ sat_last.received = <<PublishedPayload>>

====
